---- MODULE Spec2Model ----
(***************************************************************************)
(* Kairo backend: the background ingestion pipeline.                       *)
(*                                                                         *)
(*   - email passes (the periodic per-user routine and the manual          *)
(*     /tasks/sync handler) over the processed-email ledger and the tasks  *)
(*     collection;                                                         *)
(*   - the processed-email ledger on its own (mark_as_processed calls);    *)
(*   - meeting discovery (periodic and /meetings/sync) and the meeting     *)
(*     processing routine started by /meetings/<id>/process;               *)
(*   - a polling service: start_polling, stop_polling and the worker loop  *)
(*     with its ticks and its sleep increments;                            *)
(*   - the passes of one worker when a pass can be cut short.              *)
(*                                                                         *)
(* One step of a pass, handler or run is one operation on the shared store *)
(* or one call to an external service; the local computation around it is  *)
(* part of the step.                                                       *)
(***************************************************************************)
EXTENDS Integers, Sequences, FiniteSets, TLC

VARIABLES
    ledger,            \* db.processed_emails, a set of documents
    tasks,             \* db.tasks, a set of documents
    last_email_check,  \* users.last_email_check, as the number of writes
    pass,              \* the email passes (periodic routine or manual sync)
    mark_result,       \* outcome of the last direct mark_as_processed call
    meetings,          \* db.meetings, a set of documents
    transcripts,       \* db.meeting_transcripts, a set of documents
    summaries,         \* db.meeting_summaries, a set of documents
    last_meeting_check,\* users.last_meeting_check, as the number of writes
    disc,              \* the discovery passes (periodic tick or /meetings/sync)
    trig,              \* the /meetings/<id>/process handlers
    run,               \* the process_meeting runs, one per handler
    is_running,        \* the is_running flag of a polling service
    polling_thread,    \* its polling_thread attribute: None or a worker
    poll_interval,     \* its poll_interval attribute
    call,              \* the start_polling / stop_polling calls
    worker,            \* the worker threads, one per start_polling call
    tick,              \* one tick of a poller over the users it enumerates
    norm               \* one extraction response on its way to Task records

vars == <<ledger, tasks, last_email_check, pass, mark_result,
          meetings, transcripts, summaries, last_meeting_check, disc, trig, run,
          is_running, polling_thread, poll_interval, call, worker, tick, norm>>

emailVars == <<ledger, tasks, last_email_check, pass, mark_result>>
meetingVars == <<meetings, transcripts, summaries, last_meeting_check, disc, trig, run>>
schedVars == <<is_running, polling_thread, poll_interval, call, worker>>
auxVars == <<tick, norm>>

----------------------------------------------------------------------------
(* Bounds *)

NumPasses == 2
MaxTasks == 2
NumMarkCalls == 3
NumDisc == 2
NumTriggers == 2
MaxItems == 2
NumCalls == 3
PollInterval == 2
MaxCandidates == 2
MaxManual == 2

Passes == 1..NumPasses
Discs == 1..NumDisc
Triggers == 1..NumTriggers
Calls == 1..NumCalls

----------------------------------------------------------------------------
(* Users, mailboxes *)

None == "None"

Users == {"u1", "u2"}

\* users.email
UserEmail(u) == IF u = "u1" THEN "alice@x.com" ELSE "bob@x.com"

Emails == {"e1", "e2"}

\* The From header of each message, as tokens.
FromHeader(e) ==
    IF e = "e1" THEN <<"boss@x.com", " ">>
                ELSE <<"Alice", " ", "<", "Alice@X.com", ">">>

\* The messages of each mailbox, oldest first.
Mailbox(u) == IF u = "u1" THEN <<"e2", "e1">> ELSE <<"e1">>

\* str.lower() on the addresses of the model
lower(s) ==
    CASE s = "Alice@X.com" -> "alice@x.com"
      [] s = "Boss@x.com" -> "boss@x.com"
      [] OTHER -> s

\* str.strip() on a token sequence: drops leading and trailing blanks
RECURSIVE strip(_)
strip(h) ==
    IF h = <<>> THEN h
    ELSE IF Head(h) = " " THEN strip(Tail(h))
    ELSE IF h[Len(h)] = " " THEN strip(SubSeq(h, 1, Len(h) - 1))
    ELSE h

\* re.search(r'<(.+?)>', from_header): the first "<" that has a ">" at least
\* one token later, and the tokens up to the nearest such ">".
extract_sender_email(h) ==
    LET opens == {i \in 1..Len(h) : h[i] = "<" /\ \E j \in (i + 2)..Len(h) : h[j] = ">"}
    IN  IF opens # {}
        THEN LET i == CHOOSE x \in opens : \A y \in opens : x <= y
                 j == CHOOSE x \in (i + 2)..Len(h) :
                          h[x] = ">" /\ \A y \in (i + 2)..Len(h) : h[y] = ">" => x <= y
             IN  SubSeq(h, i + 1, j - 1)
        ELSE strip(h)

\* sender_email.lower() == user.get('email', '').lower()
FromSelfCaseSensitive(e, u) == extract_sender_email(FromHeader(e)) = <<UserEmail(u)>>

FromSelf(e, u) ==
    LET s == extract_sender_email(FromHeader(e))
    IN  Len(s) = 1 /\ lower(s[1]) = lower(UserEmail(u))

\* gmail_service.get_emails_since(since): the messages after a date
Fetches(u) == {SubSeq(Mailbox(u), i, Len(Mailbox(u))) : i \in 1..(Len(Mailbox(u)) + 1)}

----------------------------------------------------------------------------
(* The processed-email ledger *)

\* the unique index on (email_id, user_id)
NoUniqueIndex(coll, e, u) == FALSE

DuplicateKey(coll, e, u) ==
    \E d \in coll : d.email_id = e /\ d.user_id = u

\* ProcessedEmail.is_processed
NeverProcessed(e, u) == FALSE

is_processed(e, u) ==
    \E d \in ledger : d.email_id = e /\ d.user_id = u

\* ProcessedEmail.mark_as_processed: insert_one, which raises on a duplicate key
mark_as_processed_upsert(coll, e, u, n, id) ==
    [raised |-> FALSE,
     coll |-> {d \in coll : ~(d.email_id = e /\ d.user_id = u)}
              \cup {[_id |-> id, email_id |-> e, user_id |-> u, tasks_created |-> n]}]

mark_as_processed(coll, e, u, n, id) ==
    IF DuplicateKey(coll, e, u)
    THEN [raised |-> TRUE, coll |-> coll]
    ELSE [raised |-> FALSE,
          coll |-> coll \cup {[_id |-> id, email_id |-> e, user_id |-> u,
                               tasks_created |-> n]}]

----------------------------------------------------------------------------
(* Email passes *)

IdlePass == [pc |-> "idle", kind |-> "none", user |-> "none", emails |-> <<>>,
             i |-> 0, todo |-> 0, k |-> 0, created |-> 0, rerun |-> FALSE,
             resp |-> "none"]

\* Task.create for an email-sourced task
EmailTaskWithoutUserEmail(p) ==
    [_id |-> <<"pass", p, pass[p].i, pass[p].k>>,
     source_type |-> "email",
     email_id |-> pass[p].emails[pass[p].i],
     meeting_id |-> <<>>,
     assigned_to |-> pass[p].user,
     created_by |-> pass[p].user,
     user_email |-> None]

EmailTask(p) ==
    [_id |-> <<"pass", p, pass[p].i, pass[p].k>>,
     source_type |-> "email",
     email_id |-> pass[p].emails[pass[p].i],
     meeting_id |-> <<>>,
     assigned_to |-> pass[p].user,
     created_by |-> pass[p].user,
     user_email |-> UserEmail(pass[p].user)]

\* end of the handling of one email: the next one, or the end of the loop
NextEmailEarlyCheckpoint(r) ==
    [r EXCEPT !.pc = IF r.kind = "periodic" THEN "checkpoint" ELSE "done",
              !.todo = 0, !.k = 0, !.created = 0, !.resp = "none"]

NextEmail(r) ==
    IF r.i < Len(r.emails)
    THEN [r EXCEPT !.pc = "check", !.i = r.i + 1, !.todo = 0, !.k = 0, !.created = 0,
                   !.resp = "none"]
    ELSE [r EXCEPT !.pc = IF r.kind = "periodic" THEN "checkpoint" ELSE "done",
                   !.todo = 0, !.k = 0, !.created = 0, !.resp = "none"]

\* _check_user_emails up to the fetch / TaskSync.post up to the fetch.
\* Pass numbers are labels only: they are handed out in increasing order.
StartPass(p) ==
    /\ pass[p].pc = "idle"
    /\ \A q \in Passes : q < p => pass[q].pc # "idle"
    /\ \E kind \in {"periodic", "manual"}, u \in Users :
         \E fetch \in Fetches(u) :
            LET rerun == \E q \in Passes : pass[q].pc = "done" /\ pass[q].user = u
                                              /\ pass[q].emails = fetch
                r == [IdlePass EXCEPT !.kind = kind, !.user = u, !.emails = fetch,
                                      !.rerun = rerun]
            IN  pass' = [pass EXCEPT ![p] =
                           IF fetch = <<>>
                           THEN [r EXCEPT !.pc = "done"]
                           ELSE [r EXCEPT !.pc = "check", !.i = 1]]
    /\ UNCHANGED <<ledger, tasks, last_email_check, mark_result>>
    /\ UNCHANGED meetingVars
    /\ UNCHANGED schedVars
    /\ UNCHANGED auxVars

\* parse, the sender test and the ledger lookup for the current email
CheckEmailExtractsAlways(p) ==
    /\ pass[p].pc = "check"
    /\ LET r == pass[p]
           e == r.emails[r.i]
       IN  pass' = [pass EXCEPT ![p] =
                      IF FromSelf(e, r.user) THEN NextEmail(r)
                      ELSE [r EXCEPT !.pc = "extract"]]
    /\ UNCHANGED <<ledger, tasks, last_email_check, mark_result>>
    /\ UNCHANGED meetingVars
    /\ UNCHANGED schedVars
    /\ UNCHANGED auxVars

CheckEmail(p) ==
    /\ pass[p].pc = "check"
    /\ LET r == pass[p]
           e == r.emails[r.i]
       IN  pass' = [pass EXCEPT ![p] =
                      IF FromSelf(e, r.user) THEN NextEmail(r)
                      ELSE IF is_processed(e, r.user) THEN NextEmail(r)
                      ELSE [r EXCEPT !.pc = "extract"]]
    /\ UNCHANGED <<ledger, tasks, last_email_check, mark_result>>
    /\ UNCHANGED meetingVars
    /\ UNCHANGED schedVars
    /\ UNCHANGED auxVars

\* What model.generate_content gives: an error, or a text that is no JSON,
\* a JSON value that is no object, or a JSON object with has_tasks and a
\* list of tasks, each with its title and description ("ok") or not ("bad").
TaskLists == UNION {[1..n -> {"ok", "bad"}] : n \in 0..MaxTasks}

Responses ==
    {[shape |-> sh, has_tasks |-> FALSE, tasks |-> <<>>] :
        sh \in {"error", "not_json", "not_object"}}
    \cup {[shape |-> "object", has_tasks |-> b, tasks |-> l] :
             b \in BOOLEAN, l \in TaskLists}

IsOk(t) == t = "ok"

\* GeminiService._parse_gemini_response: the number of validated tasks of
\* the dict returned, 0 for None
ParseAcceptsAnything(resp) ==
    IF resp.shape = "object" THEN Len(SelectSeq(resp.tasks, IsOk)) ELSE 1

parse_gemini_response(resp) ==
    IF resp.shape # "object" THEN 0
    ELSE IF ~resp.has_tasks THEN 0
    ELSE Len(SelectSeq(resp.tasks, IsOk))

\* GeminiService.extract_task_from_email: any exception gives None
extract_task_from_email(resp) ==
    IF resp.shape = "error" THEN 0 ELSE parse_gemini_response(resp)

\* how the call went: an error, a text that did not parse to an object, or
\* an object
ResponseClass(resp) ==
    IF resp.shape \in {"not_json", "not_object"} THEN "malformed" ELSE resp.shape

\* GeminiService().extract_task_from_email(...) for the current email and
\* the test of its result
ExtractEmail(p) ==
    /\ pass[p].pc = "extract"
    /\ \E resp \in Responses :
         LET n == extract_task_from_email(resp)
         IN  pass' = [pass EXCEPT ![p] =
                        IF n = 0
                        THEN [@ EXCEPT !.pc = "mark", !.todo = 0, !.k = 0, !.created = 0,
                                       !.resp = ResponseClass(resp)]
                        ELSE [@ EXCEPT !.pc = "create", !.todo = n, !.k = 0, !.created = 0,
                                       !.resp = ResponseClass(resp)]]
    /\ UNCHANGED <<ledger, tasks, last_email_check, mark_result>>
    /\ UNCHANGED meetingVars
    /\ UNCHANGED schedVars
    /\ UNCHANGED auxVars

\* one iteration of the loop over tasks_to_create; Task.create may raise
CreateEmailTask(p) ==
    /\ pass[p].pc = "create"
    /\ \E ok \in BOOLEAN :
         /\ tasks' = IF ok THEN tasks \cup {EmailTask(p)} ELSE tasks
         /\ pass' = [pass EXCEPT ![p] =
                       [@ EXCEPT !.k = @ + 1,
                                 !.created = IF ok THEN @ + 1 ELSE @,
                                 !.pc = IF pass[p].k + 1 = pass[p].todo THEN "mark" ELSE "create"]]
    /\ UNCHANGED <<ledger, last_email_check, mark_result>>
    /\ UNCHANGED meetingVars
    /\ UNCHANGED schedVars
    /\ UNCHANGED auxVars

\* ProcessedEmail.mark_as_processed at the end of the item; a raised
\* duplicate-key error is caught around the item and the loop goes on
MarkEmail(p) ==
    /\ pass[p].pc = "mark"
    /\ LET r == pass[p]
           res == mark_as_processed(ledger, r.emails[r.i], r.user, r.created,
                                    <<"pass", p, r.i, r.resp>>)
       IN  /\ ledger' = res.coll
           /\ pass' = [pass EXCEPT ![p] = NextEmail(r)]
    /\ UNCHANGED <<tasks, last_email_check, mark_result>>
    /\ UNCHANGED meetingVars
    /\ UNCHANGED schedVars
    /\ UNCHANGED auxVars

\* User.update_last_email_check, after the loop of the periodic routine
Checkpoint(p) ==
    /\ pass[p].pc = "checkpoint"
    /\ last_email_check' = [last_email_check EXCEPT ![pass[p].user] = @ + 1]
    /\ pass' = [pass EXCEPT ![p].pc = "done"]
    /\ UNCHANGED <<ledger, tasks, mark_result>>
    /\ UNCHANGED meetingVars
    /\ UNCHANGED schedVars
    /\ UNCHANGED auxVars

\* the pass is cut short: its thread is a daemon thread (or a request
\* thread) and ends with the process, at any point of the batch
StopPass(p) ==
    /\ pass[p].pc \in {"check", "extract", "create", "mark", "checkpoint"}
    /\ pass' = [pass EXCEPT ![p] = [@ EXCEPT !.pc = "stopped", !.todo = 0, !.k = 0,
                                              !.created = 0, !.resp = "none"]]
    /\ UNCHANGED <<ledger, tasks, last_email_check, mark_result>>
    /\ UNCHANGED meetingVars
    /\ UNCHANGED schedVars
    /\ UNCHANGED auxVars

----------------------------------------------------------------------------
(* Direct calls of the ledger *)

\* ProcessedEmail.mark_as_processed(e, u, n) called on its own
MarkAsProcessed ==
    /\ mark_result.calls < NumMarkCalls
    /\ \E e \in Emails, u \in Users, n \in 0..MaxTasks :
         LET res == mark_as_processed(ledger, e, u, n, <<"call", mark_result.calls + 1, 0, 0>>)
         IN  /\ ledger' = res.coll
             /\ mark_result' = [calls |-> mark_result.calls + 1, email_id |-> e,
                                user_id |-> u, tasks_created |-> n, raised |-> res.raised]
    /\ UNCHANGED <<tasks, last_email_check, pass>>
    /\ UNCHANGED meetingVars
    /\ UNCHANGED schedVars
    /\ UNCHANGED auxVars

----------------------------------------------------------------------------
(* Meetings: the collection *)

\* the unique index on (calendar_event_id, user_id)
NoMeetingIndex(coll, ev, u) == FALSE

MeetingDuplicateKey(coll, ev, u) ==
    \E m \in coll : m.calendar_event_id = ev /\ m.user_id = u

\* Meeting.find_by_calendar_event_id(...) is not None
find_by_calendar_event_id(ev, u) ==
    \E m \in meetings : m.calendar_event_id = ev /\ m.user_id = u

\* Meeting.create: the document inserted, status pending
NewMeeting(id, ev, u) ==
    [_id |-> id, calendar_event_id |-> ev, user_id |-> u,
     processing_status |-> "pending", processed_at |-> None, error_message |-> None]

\* Meeting.update_status: $set of the status, and of processed_at and
\* error_message when the argument is truthy
update_status(coll, id, status, processed_at, error_message) ==
    {IF m._id = id
     THEN [m EXCEPT !.processing_status = status,
                    !.processed_at = IF processed_at # None THEN processed_at ELSE @,
                    !.error_message = IF error_message # None /\ error_message # ""
                                      THEN error_message ELSE @]
     ELSE m : m \in coll}

\* Meeting.find_by_id
find_by_id(coll, id) == CHOOSE m \in coll : m._id = id

----------------------------------------------------------------------------
(* Meeting discovery: _check_user_meetings and MeetingSync.post *)

Events == {"ev1", "ev2"}

\* calendar_service.get_past_meet_events_with_recordings(days_back), in
\* start-time order; the periodic routine looks 7 days back, the sync 14
Calendar(u, days_back) ==
    IF u = "u1" THEN (IF days_back >= 14 THEN <<"ev1", "ev2">> ELSE <<"ev2">>)
                ELSE (IF days_back >= 14 THEN <<"ev1">> ELSE <<>>)

PeriodicDaysBack == 7
SyncDaysBack == 14

IdleDisc == [pc |-> "idle", kind |-> "none", user |-> "none", events |-> <<>>,
             i |-> 0, added |-> 0, errors |-> 0]

\* end of the handling of one event
NextEvent(r) ==
    IF r.i < Len(r.events)
    THEN [r EXCEPT !.pc = "find", !.i = r.i + 1]
    ELSE [r EXCEPT !.pc = IF r.kind = "periodic" THEN "checkpoint" ELSE "done"]

\* the fetch of the calendar events. Pass numbers are labels only.
StartDisc(d) ==
    /\ disc[d].pc = "idle"
    /\ \A q \in Discs : q < d => disc[q].pc # "idle"
    /\ \E kind \in {"periodic", "manual"}, u \in Users :
         LET evs == Calendar(u, IF kind = "periodic" THEN PeriodicDaysBack ELSE SyncDaysBack)
             r == [IdleDisc EXCEPT !.kind = kind, !.user = u, !.events = evs]
         IN  disc' = [disc EXCEPT ![d] =
                        IF evs = <<>>
                        THEN [r EXCEPT !.pc = IF kind = "periodic" THEN "checkpoint" ELSE "done"]
                        ELSE [r EXCEPT !.pc = "find", !.i = 1]]
    /\ UNCHANGED <<meetings, transcripts, summaries, last_meeting_check, trig, run>>
    /\ UNCHANGED emailVars
    /\ UNCHANGED schedVars
    /\ UNCHANGED auxVars

\* Meeting.find_by_calendar_event_id for the current event; an existing
\* meeting is skipped whatever its status
FindEventRetry(d) ==
    /\ disc[d].pc = "find"
    /\ LET r == disc[d]
           found == find_by_calendar_event_id(r.events[r.i], r.user)
       IN  /\ disc' = [disc EXCEPT ![d] = IF found THEN NextEvent(r)
                                          ELSE [r EXCEPT !.pc = "create"]]
           /\ meetings' = {IF m.calendar_event_id = r.events[r.i] /\ m.user_id = r.user
                              /\ m.processing_status = "failed"
                           THEN [m EXCEPT !.processing_status = "pending"]
                           ELSE m : m \in meetings}
    /\ UNCHANGED <<transcripts, summaries, last_meeting_check, trig, run>>
    /\ UNCHANGED emailVars
    /\ UNCHANGED schedVars
    /\ UNCHANGED auxVars

FindEvent(d) ==
    /\ disc[d].pc = "find"
    /\ LET r == disc[d]
       IN  disc' = [disc EXCEPT ![d] =
                      IF find_by_calendar_event_id(r.events[r.i], r.user)
                      THEN NextEvent(r)
                      ELSE [r EXCEPT !.pc = "create"]]
    /\ UNCHANGED <<meetings, transcripts, summaries, last_meeting_check, trig, run>>
    /\ UNCHANGED emailVars
    /\ UNCHANGED schedVars
    /\ UNCHANGED auxVars

\* Meeting.create for the current event; a duplicate-key error is caught
\* around the event and logged
CreateMeeting(d) ==
    /\ disc[d].pc = "create"
    /\ LET r == disc[d]
           ev == r.events[r.i]
       IN  IF MeetingDuplicateKey(meetings, ev, r.user)
           THEN /\ disc' = [disc EXCEPT ![d] = NextEvent([r EXCEPT !.errors = @ + 1])]
                /\ UNCHANGED meetings
           ELSE /\ meetings' = meetings \cup {NewMeeting(<<d, r.i>>, ev, r.user)}
                /\ disc' = [disc EXCEPT ![d] = NextEvent([r EXCEPT !.added = @ + 1])]
    /\ UNCHANGED <<transcripts, summaries, last_meeting_check, trig, run>>
    /\ UNCHANGED emailVars
    /\ UNCHANGED schedVars
    /\ UNCHANGED auxVars

\* User.update_last_meeting_check of the periodic routine
MeetingCheckpoint(d) ==
    /\ disc[d].pc = "checkpoint"
    /\ last_meeting_check' = [last_meeting_check EXCEPT ![disc[d].user] = @ + 1]
    /\ disc' = [disc EXCEPT ![d].pc = "done"]
    /\ UNCHANGED <<meetings, transcripts, summaries, trig, run>>
    /\ UNCHANGED emailVars
    /\ UNCHANGED schedVars
    /\ UNCHANGED auxVars

----------------------------------------------------------------------------
(* Meeting processing: MeetingProcess.post and process_meeting *)

IdleTrigger == [pc |-> "idle", meeting |-> <<>>, response |-> 0]

NoRun == [pc |-> "none", meeting |-> <<>>, user |-> "none", seen |-> "none",
          found |-> "none", items |-> 0, idx |-> 0, created |-> 0, err |-> None,
          wrote |-> <<>>, wfail |-> FALSE, result |-> "none"]

\* the thread target: process_meeting(meeting) with the document the handler read
StartedRun(m) ==
    [NoRun EXCEPT !.pc = "start", !.meeting = m._id, !.user = m.user_id,
                  !.seen = m.processing_status]

\* meeting.get('processing_status') == 'processing'
NeverBusy(m) == FALSE

AlreadyProcessing(m) == m.processing_status = "processing"

\* what a status write returns: the document read back
Written(coll, id) ==
    [status |-> find_by_id(coll, id).processing_status,
     error_message |-> find_by_id(coll, id).error_message]

\* a raise inside the try block of process_meeting
Raise(r, msg) == [r EXCEPT !.pc = "except", !.err = msg]

\* MeetingProcess.post up to thread.start(): 404 for an unknown id, 403 for a
\* caller who is not the owner, 400 for a meeting in processing.
\* Handler numbers are labels only.
TriggerPost(h) ==
    /\ trig[h].pc = "idle"
    /\ \A q \in Triggers : q < h => trig[q].pc # "idle"
    /\ \E caller \in Users :
         \/ /\ trig' = [trig EXCEPT ![h] = [pc |-> "rejected", meeting |-> <<>>,
                                            response |-> 404]]
            /\ UNCHANGED run
         \/ \E m \in meetings :
              IF m.user_id # caller
              THEN /\ trig' = [trig EXCEPT ![h] = [pc |-> "rejected", meeting |-> m._id,
                                                   response |-> 403]]
                   /\ UNCHANGED run
              ELSE IF AlreadyProcessing(m)
              THEN /\ trig' = [trig EXCEPT ![h] = [pc |-> "rejected", meeting |-> m._id,
                                                   response |-> 400]]
                   /\ UNCHANGED run
              ELSE /\ trig' = [trig EXCEPT ![h] = [pc |-> "eager", meeting |-> m._id,
                                                   response |-> 0]]
                   /\ run' = [run EXCEPT ![h] = StartedRun(m)]
    /\ UNCHANGED <<meetings, transcripts, summaries, last_meeting_check, disc, tasks>>
    /\ UNCHANGED <<ledger, last_email_check, pass, mark_result>>
    /\ UNCHANGED schedVars
    /\ UNCHANGED auxVars

\* Meeting.update_status(meeting_id, 'processing') of the handler, then the
\* 202 response
TriggerEagerWrite(h) ==
    /\ trig[h].pc = "eager"
    /\ meetings' = update_status(meetings, trig[h].meeting, "processing", None, None)
    /\ trig' = [trig EXCEPT ![h].pc = "responded", ![h].response = 202]
    /\ UNCHANGED <<transcripts, summaries, last_meeting_check, disc, run, tasks>>
    /\ UNCHANGED <<ledger, last_email_check, pass, mark_result>>
    /\ UNCHANGED schedVars
    /\ UNCHANGED auxVars

\* GeminiService(), which raises without an API key, and
\* Meeting.update_status(meeting_id, 'processing')
RunSetProcessing(h) ==
    /\ run[h].pc = "start"
    /\ \E o \in {"ok", "gemini_error"} :
         IF o = "ok"
         THEN LET coll == update_status(meetings, run[h].meeting, "processing", None, None)
              IN  /\ meetings' = coll
                  /\ run' = [run EXCEPT ![h].pc = "search",
                                        ![h].wrote = Append(@, Written(coll, run[h].meeting))]
         ELSE /\ run' = [run EXCEPT ![h] =
                           Raise(@, "GEMINI_API_KEY not found in environment variables")]
              /\ UNCHANGED meetings
    /\ UNCHANGED <<transcripts, summaries, last_meeting_check, disc, trig, tasks>>
    /\ UNCHANGED <<ledger, last_email_check, pass, mark_result>>
    /\ UNCHANGED schedVars
    /\ UNCHANGED auxVars

\* the outcomes of the document lookup that end the run with a failed status
DriveOnlyFails(o) == o \in {"no_drive", "empty"}

SearchFails(o) == o \in {"no_drive", "no_document", "empty"}

SearchError(o) ==
    IF o = "no_drive" THEN "Drive service not available"
    ELSE IF o = "no_document" THEN "No transcript or Gemini notes found in Google Drive"
    ELSE "Failed to read transcript/notes content"

\* a status write that ends the run with return False
FailAndReturn(h, r, msg) ==
    LET coll == update_status(meetings, r.meeting, "failed", None, msg)
    IN  /\ meetings' = coll
        /\ run' = [run EXCEPT ![h] =
                     [r EXCEPT !.pc = "done", !.result = "False",
                               !.wrote = Append(@, Written(coll, r.meeting))]]

\* MeetingTranscript.create under the unique index on meeting_id
NoTranscriptIndex(mid) == FALSE

TranscriptExists(mid) == \E t \in transcripts : t.meeting_id = mid

\* User.find_by_id, DriveService.get_service_for_user,
\* drive_service.find_meeting_recording, drive_service.get_document_text and
\* the store operation they lead to: the failed status or MeetingTranscript.create.
\* Outcomes: the user is gone, no Drive service, no document, a document
\* with no readable text, a document with text.
RunSearch(h) ==
    /\ run[h].pc = "search"
    /\ \E o \in {"user_missing", "no_drive", "no_document", "empty", "text"} :
         LET r == [run[h] EXCEPT !.found = o]
         IN  IF o = "user_missing"
             THEN /\ run' = [run EXCEPT ![h] = Raise(r, "User not found")]
                  /\ UNCHANGED <<meetings, transcripts>>
             ELSE IF SearchFails(o)
             THEN /\ FailAndReturn(h, r, SearchError(o))
                  /\ UNCHANGED transcripts
             ELSE IF TranscriptExists(r.meeting)
             THEN /\ run' = [run EXCEPT ![h] = Raise(r, "E11000 duplicate key error")]
                  /\ UNCHANGED <<meetings, transcripts>>
             ELSE /\ transcripts' = transcripts \cup
                                      {[_id |-> <<h>>, meeting_id |-> r.meeting,
                                        user_id |-> r.user]}
                  /\ run' = [run EXCEPT ![h] = [r EXCEPT !.pc = "summarize"]]
                  /\ UNCHANGED meetings
    /\ UNCHANGED <<summaries, last_meeting_check, disc, trig, tasks>>
    /\ UNCHANGED <<ledger, last_email_check, pass, mark_result>>
    /\ UNCHANGED schedVars
    /\ UNCHANGED auxVars

\* MeetingSummary.create under the unique index on meeting_id
SummaryExists(mid) == \E x \in summaries : x.meeting_id = mid

\* gemini_service.summarize_meeting_transcript (None, or n action items) and
\* MeetingSummary.create
RunSummarizeUnchecked(h) ==
    /\ run[h].pc = "summarize"
    /\ \E n \in -1..MaxItems :
         IF n = -1
         THEN /\ run' = [run EXCEPT ![h].pc = "complete", ![h].err = "Failed to generate summary"]
              /\ UNCHANGED summaries
         ELSE IF SummaryExists(run[h].meeting)
         THEN /\ run' = [run EXCEPT ![h] = Raise(@, "E11000 duplicate key error")]
              /\ UNCHANGED summaries
         ELSE /\ summaries' = summaries \cup
                                {[_id |-> <<h>>, meeting_id |-> run[h].meeting,
                                  user_id |-> run[h].user,
                                  action_items |-> [i \in 1..n |-> [task_id |-> None]]]}
              /\ run' = [run EXCEPT ![h].pc = IF n = 0 THEN "complete" ELSE "tasks",
                                    ![h].items = n, ![h].idx = 0, ![h].created = 0]
    /\ UNCHANGED <<meetings, transcripts, last_meeting_check, disc, trig, tasks>>
    /\ UNCHANGED <<ledger, last_email_check, pass, mark_result>>
    /\ UNCHANGED schedVars
    /\ UNCHANGED auxVars

RunSummarize(h) ==
    /\ run[h].pc = "summarize"
    /\ \E n \in -1..MaxItems :
         IF n = -1
         THEN /\ run' = [run EXCEPT ![h] = Raise(@, "Failed to generate summary")]
              /\ UNCHANGED summaries
         ELSE IF SummaryExists(run[h].meeting)
         THEN /\ run' = [run EXCEPT ![h] = Raise(@, "E11000 duplicate key error")]
              /\ UNCHANGED summaries
         ELSE /\ summaries' = summaries \cup
                                {[_id |-> <<h>>, meeting_id |-> run[h].meeting,
                                  user_id |-> run[h].user,
                                  action_items |-> [i \in 1..n |-> [task_id |-> None]]]}
              /\ run' = [run EXCEPT ![h].pc = IF n = 0 THEN "complete" ELSE "tasks",
                                    ![h].items = n, ![h].idx = 0, ![h].created = 0]
    /\ UNCHANGED <<meetings, transcripts, last_meeting_check, disc, trig, tasks>>
    /\ UNCHANGED <<ledger, last_email_check, pass, mark_result>>
    /\ UNCHANGED schedVars
    /\ UNCHANGED auxVars

\* Task.create for the action item at position idx (0-based)
MeetingTask(h) ==
    [_id |-> <<"run", h, run[h].idx, 0>>,
     source_type |-> "meeting",
     email_id |-> None,
     meeting_id |-> run[h].meeting,
     assigned_to |-> run[h].user,
     created_by |-> run[h].user,
     user_email |-> UserEmail(run[h].user)]

\* MeetingSummary.update_task_id(meeting_id, idx, task_id)
update_task_id_first(coll, mid, idx, tid) ==
    {IF x.meeting_id = mid /\ 1 \in DOMAIN x.action_items
     THEN [x EXCEPT !.action_items[1].task_id = tid]
     ELSE x : x \in coll}

update_task_id(coll, mid, idx, tid) ==
    {IF x.meeting_id = mid /\ idx + 1 \in DOMAIN x.action_items
     THEN [x EXCEPT !.action_items[idx + 1].task_id = tid]
     ELSE x : x \in coll}

\* one iteration of the loop over the action items: Task.create and the
\* back-reference, either of which may raise (caught, logged, loop goes on)
RunCreateTaskAborting(h) ==
    /\ run[h].pc = "tasks"
    /\ \E o \in {"ok", "create_failed", "backref_failed"} :
         /\ tasks' = IF o = "create_failed" THEN tasks ELSE tasks \cup {MeetingTask(h)}
         /\ summaries' = IF o = "ok"
                         THEN update_task_id(summaries, run[h].meeting, run[h].idx,
                                             MeetingTask(h)._id)
                         ELSE summaries
         /\ run' = [run EXCEPT ![h].idx = @ + 1,
                               ![h].created = IF o = "ok" THEN @ + 1 ELSE @,
                               ![h].pc = IF o # "ok" THEN "except"
                                         ELSE IF run[h].idx + 1 = run[h].items
                                         THEN "complete" ELSE "tasks"]
    /\ UNCHANGED <<meetings, transcripts, last_meeting_check, disc, trig>>
    /\ UNCHANGED <<ledger, last_email_check, pass, mark_result>>
    /\ UNCHANGED schedVars
    /\ UNCHANGED auxVars

RunCreateTask(h) ==
    /\ run[h].pc = "tasks"
    /\ \E o \in {"ok", "create_failed", "backref_failed"} :
         /\ tasks' = IF o = "create_failed" THEN tasks ELSE tasks \cup {MeetingTask(h)}
         /\ summaries' = IF o = "ok"
                         THEN update_task_id(summaries, run[h].meeting, run[h].idx,
                                             MeetingTask(h)._id)
                         ELSE summaries
         /\ run' = [run EXCEPT ![h].idx = @ + 1,
                               ![h].created = IF o = "ok" THEN @ + 1 ELSE @,
                               ![h].pc = IF run[h].idx + 1 = run[h].items
                                         THEN "complete" ELSE "tasks"]
    /\ UNCHANGED <<meetings, transcripts, last_meeting_check, disc, trig>>
    /\ UNCHANGED <<ledger, last_email_check, pass, mark_result>>
    /\ UNCHANGED schedVars
    /\ UNCHANGED auxVars

\* Meeting.update_status(meeting_id, 'completed', processed_at=now); return True
RunCompleteNoTimestamp(h) ==
    /\ run[h].pc = "complete"
    /\ LET coll == update_status(meetings, run[h].meeting, "completed", None, None)
       IN  /\ meetings' = coll
           /\ run' = [run EXCEPT ![h].pc = "done", ![h].result = "True",
                                 ![h].wrote = Append(@, Written(coll, run[h].meeting))]
    /\ UNCHANGED <<transcripts, summaries, last_meeting_check, disc, trig, tasks>>
    /\ UNCHANGED <<ledger, last_email_check, pass, mark_result>>
    /\ UNCHANGED schedVars
    /\ UNCHANGED auxVars

RunComplete(h) ==
    /\ run[h].pc = "complete"
    /\ LET coll == update_status(meetings, run[h].meeting, "completed", "now", None)
       IN  /\ meetings' = coll
           /\ run' = [run EXCEPT ![h].pc = "done", ![h].result = "True",
                                 ![h].wrote = Append(@, Written(coll, run[h].meeting))]
    /\ UNCHANGED <<transcripts, summaries, last_meeting_check, disc, trig, tasks>>
    /\ UNCHANGED <<ledger, last_email_check, pass, mark_result>>
    /\ UNCHANGED schedVars
    /\ UNCHANGED auxVars

\* the except block: update_status(failed, error_message=str(e)) inside a
\* try/except that swallows a failure of the write; return False
RunExceptNoWrite(h) ==
    /\ run[h].pc = "except"
    /\ run' = [run EXCEPT ![h].pc = "done", ![h].result = "False"]
    /\ UNCHANGED <<meetings, transcripts, summaries, last_meeting_check, disc, trig, tasks>>
    /\ UNCHANGED <<ledger, last_email_check, pass, mark_result>>
    /\ UNCHANGED schedVars
    /\ UNCHANGED auxVars

RunExcept(h) ==
    /\ run[h].pc = "except"
    /\ \E ok \in BOOLEAN :
         IF ok
         THEN LET coll == update_status(meetings, run[h].meeting, "failed", None, run[h].err)
              IN  /\ meetings' = coll
                  /\ run' = [run EXCEPT ![h].pc = "done", ![h].result = "False",
                                        ![h].wrote = Append(@, Written(coll, run[h].meeting))]
         ELSE /\ run' = [run EXCEPT ![h].pc = "done", ![h].result = "False",
                                    ![h].wfail = TRUE]
              /\ UNCHANGED meetings
    /\ UNCHANGED <<transcripts, summaries, last_meeting_check, disc, trig, tasks>>
    /\ UNCHANGED <<ledger, last_email_check, pass, mark_result>>
    /\ UNCHANGED schedVars
    /\ UNCHANGED auxVars

----------------------------------------------------------------------------
(* A polling service: start_polling, stop_polling and the worker loop *)

\* a call of start_polling or stop_polling
IdleCall == [pc |-> "idle", kind |-> "none", target |-> 0, result |-> "none"]

\* a worker thread running _poll_emails: its position in the loop, in the
\* tick (user u, item i) and in the sleep loop (increment n)
NoWorker == [pc |-> "none", u |-> 0, i |-> 0, n |-> 0]

\* User.get_users_with_gmail_tokens(): the users a tick goes over
TickUsers == <<"u1", "u2">>

\* the emails the tick fetches for the user at position u
TickItems(u) == Mailbox(TickUsers[u])

\* threading.Thread.is_alive()
Alive(w) == worker[w].pc \notin {"none", "created", "exited"}

\* if self.is_running: (print and return)
NeverRunning == FALSE

AlreadyRunning == is_running

\* start_polling, the test of the flag. Call numbers are labels only.
StartPollingTest(c) ==
    /\ call[c].pc = "idle"
    /\ \A q \in Calls : q < c => call[q].pc # "idle"
    /\ call' = [call EXCEPT ![c] =
                  IF AlreadyRunning
                  THEN [IdleCall EXCEPT !.pc = "returned", !.kind = "start", !.result = "noop"]
                  ELSE [IdleCall EXCEPT !.pc = "set", !.kind = "start"]]
    /\ UNCHANGED <<is_running, polling_thread, poll_interval, worker>>
    /\ UNCHANGED emailVars
    /\ UNCHANGED meetingVars
    /\ UNCHANGED auxVars

\* self.is_running = True
StartPollingSet(c) ==
    /\ call[c].pc = "set"
    /\ is_running' = TRUE
    /\ call' = [call EXCEPT ![c].pc = "assign"]
    /\ UNCHANGED <<polling_thread, poll_interval, worker>>
    /\ UNCHANGED emailVars
    /\ UNCHANGED meetingVars
    /\ UNCHANGED auxVars

\* self.polling_thread = threading.Thread(target=self._poll_emails, daemon=True)
StartPollingAssign(c) ==
    /\ call[c].pc = "assign"
    /\ polling_thread' = c
    /\ worker' = [worker EXCEPT ![c].pc = "created"]
    /\ call' = [call EXCEPT ![c].pc = "spawn", ![c].target = c]
    /\ UNCHANGED <<is_running, poll_interval>>
    /\ UNCHANGED emailVars
    /\ UNCHANGED meetingVars
    /\ UNCHANGED auxVars

\* self.polling_thread.start(): the thread the attribute holds at this
\* point; starting a thread a second time raises
StartPollingSpawn(c) ==
    /\ call[c].pc = "spawn"
    /\ IF worker[polling_thread].pc = "created"
       THEN /\ worker' = [worker EXCEPT ![polling_thread].pc = "loop"]
            /\ call' = [call EXCEPT ![c].pc = "returned", ![c].result = "started",
                                    ![c].target = polling_thread]
       ELSE /\ call' = [call EXCEPT ![c].pc = "returned", ![c].result = "raised",
                                    ![c].target = polling_thread]
            /\ UNCHANGED worker
    /\ UNCHANGED <<is_running, polling_thread, poll_interval>>
    /\ UNCHANGED emailVars
    /\ UNCHANGED meetingVars
    /\ UNCHANGED auxVars

\* stop_polling: self.is_running = False
StopPollingClear(c) ==
    /\ call[c].pc = "idle"
    /\ \A q \in Calls : q < c => call[q].pc # "idle"
    /\ is_running' = FALSE
    /\ call' = [call EXCEPT ![c] = [IdleCall EXCEPT !.pc = "read", !.kind = "stop"]]
    /\ UNCHANGED <<polling_thread, poll_interval, worker>>
    /\ UNCHANGED emailVars
    /\ UNCHANGED meetingVars
    /\ UNCHANGED auxVars

\* if self.polling_thread: (the thread to join)
StopPollingRead(c) ==
    /\ call[c].pc = "read"
    /\ call' = [call EXCEPT ![c] =
                  IF polling_thread = 0
                  THEN [@ EXCEPT !.pc = "returned", !.result = "no_thread"]
                  ELSE [@ EXCEPT !.pc = "join", !.target = polling_thread]]
    /\ UNCHANGED <<is_running, polling_thread, poll_interval, worker>>
    /\ UNCHANGED emailVars
    /\ UNCHANGED meetingVars
    /\ UNCHANGED auxVars

\* self.polling_thread.join(timeout=5): returns when the thread has ended or
\* when the timeout has passed; raises on a thread that was not started
StopPollingJoin(c) ==
    /\ call[c].pc = "join"
    /\ call' = [call EXCEPT ![c].pc = "returned",
                            ![c].result = IF worker[call[c].target].pc = "created" THEN "raised"
                                          ELSE IF Alive(call[c].target) THEN "timeout"
                                          ELSE "joined"]
    /\ UNCHANGED <<is_running, polling_thread, poll_interval, worker>>
    /\ UNCHANGED emailVars
    /\ UNCHANGED meetingVars
    /\ UNCHANGED auxVars

\* while self.is_running: the next tick, or the end of the loop
PollLoopTest(w) ==
    /\ worker[w].pc = "loop"
    /\ worker' = [worker EXCEPT ![w] =
                    IF is_running THEN [pc |-> "tick", u |-> 0, i |-> 0, n |-> 0]
                    ELSE [pc |-> "exited", u |-> 0, i |-> 0, n |-> 0]]
    /\ UNCHANGED <<is_running, polling_thread, poll_interval, call>>
    /\ UNCHANGED emailVars
    /\ UNCHANGED meetingVars
    /\ UNCHANGED auxVars

\* the position after (u, i) in _check_all_users_for_new_emails: the next
\* email of the user, the next user, or the end of the tick
TickNext(r) ==
    IF r.u >= 1 /\ r.i < Len(TickItems(r.u)) THEN [r EXCEPT !.i = r.i + 1]
    ELSE IF r.u < Len(TickUsers) THEN [r EXCEPT !.u = r.u + 1, !.i = 0]
    ELSE [pc |-> "sleep", u |-> 0, i |-> 0, n |-> 0]

\* one step of the tick: the fetch for the next user (for user in users,
\* _check_user_emails) or the handling of the next email (for email_msg in
\* emails, _process_email_for_tasks); neither loop reads is_running
TickStep(w) ==
    /\ worker[w].pc = "tick"
    /\ worker' = [worker EXCEPT ![w] = TickNext(@)]
    /\ UNCHANGED <<is_running, polling_thread, poll_interval, call>>
    /\ UNCHANGED emailVars
    /\ UNCHANGED meetingVars
    /\ UNCHANGED auxVars

\* if not self.is_running: break
SleepIgnoresFlag == FALSE

SleepBreaks == ~is_running

\* for _ in range(self.poll_interval): if not self.is_running: break, else
\* time.sleep(1) begins
SleepTest(w) ==
    /\ worker[w].pc = "sleep"
    /\ worker' = [worker EXCEPT ![w] =
                    IF @.n >= poll_interval \/ SleepBreaks
                    THEN [pc |-> "loop", u |-> 0, i |-> 0, n |-> 0]
                    ELSE [@ EXCEPT !.pc = "sleeping"]]
    /\ UNCHANGED <<is_running, polling_thread, poll_interval, call>>
    /\ UNCHANGED emailVars
    /\ UNCHANGED meetingVars
    /\ UNCHANGED auxVars

\* time.sleep(1) returns
SleepWake(w) ==
    /\ worker[w].pc = "sleeping"
    /\ worker' = [worker EXCEPT ![w].pc = "sleep", ![w].n = @ + 1]
    /\ UNCHANGED <<is_running, polling_thread, poll_interval, call>>
    /\ UNCHANGED emailVars
    /\ UNCHANGED meetingVars
    /\ UNCHANGED auxVars

\* an exception inside the tick, at the position the worker is in: before
\* or in the user enumeration (u = 0), or in the routine of user u (a
\* connector or store call); an except block is entered
TickRaises(w) ==
    /\ worker[w].pc = "tick"
    /\ worker' = [worker EXCEPT ![w].pc = "caught"]
    /\ UNCHANGED <<is_running, polling_thread, poll_interval, call>>
    /\ UNCHANGED emailVars
    /\ UNCHANGED meetingVars
    /\ UNCHANGED auxVars

\* after the except block: the exception was logged and the thread ends
ResumeExits(r) == [pc |-> "exited", u |-> 0, i |-> 0, n |-> 0]

\* after the except block: an exception in the handling of item i is caught
\* around that item and the loop goes on as after the item; one in the
\* fetch for user u is caught around that user's routine and the next user
\* follows; one in the enumeration (u = 0) ends the tick, and the sleep
\* phase follows
Resume(r) ==
    IF r.u >= 1 /\ r.i >= 1 THEN TickNext([r EXCEPT !.pc = "tick"])
    ELSE IF r.u >= 1 /\ r.u < Len(TickUsers)
    THEN [pc |-> "tick", u |-> r.u + 1, i |-> 0, n |-> 0]
    ELSE [pc |-> "sleep", u |-> 0, i |-> 0, n |-> 0]

\* the except block has printed the error
TickResume(w) ==
    /\ worker[w].pc = "caught"
    /\ worker' = [worker EXCEPT ![w] = Resume(@)]
    /\ UNCHANGED <<is_running, polling_thread, poll_interval, call>>
    /\ UNCHANGED emailVars
    /\ UNCHANGED meetingVars
    /\ UNCHANGED auxVars

\* __init__: no thread, not running
InitSched ==
    /\ is_running = FALSE
    /\ polling_thread = 0
    /\ poll_interval = PollInterval
    /\ call = [c \in Calls |-> IdleCall]
    /\ worker = [w \in Calls |-> NoWorker]

----------------------------------------------------------------------------
(* One tick of a poller: _check_all_users_for_new_emails and
   _check_all_users_for_meetings *)

\* the tick: the poller, the users enumerated, the number of users called,
\* the users whose routine was called and those whose routine raised
IdleTick == [pc |-> "idle", kind |-> "none", users |-> <<>>, u |-> 0,
             entered |-> {}, raised |-> {}]

\* no per-user routine is running
NoPassActive ==
    /\ \A p \in Passes : pass[p].pc \in {"idle", "done", "raised", "stopped"}
    /\ \A d \in Discs : disc[d].pc \in {"idle", "done", "raised"}

\* User.get_users_with_gmail_tokens() / get_users_with_calendar_tokens():
\* the users, or no user when the query fails or finds none
TickBegin ==
    /\ tick.pc \in {"idle", "ended"}
    /\ \E kind \in {"email", "meeting"}, users \in {<<>>, TickUsers} :
         /\ kind = "email" => \E p \in Passes : pass[p].pc = "idle"
         /\ kind = "meeting" => \E d \in Discs : disc[d].pc = "idle"
         /\ tick' = [IdleTick EXCEPT !.pc = "users", !.kind = kind, !.users = users]
    /\ UNCHANGED norm
    /\ UNCHANGED emailVars
    /\ UNCHANGED meetingVars
    /\ UNCHANGED schedVars

\* except Exception around the call of the per-user routine: logged, and
\* the for loop goes on with the next user
UserRaisedAborts(t, user) ==
    [t EXCEPT !.raised = @ \cup {user}, !.u = Len(t.users)]

UserRaised(t, user) == [t EXCEPT !.raised = @ \cup {user}]

\* for user in users: self._check_user_emails(user), up to the fetch, which
\* returns the emails or raises
TickCallEmailUser(p) ==
    /\ tick.pc = "users" /\ tick.kind = "email" /\ tick.u < Len(tick.users)
    /\ NoPassActive
    /\ pass[p].pc = "idle"
    /\ \A q \in Passes : q < p => pass[q].pc # "idle"
    /\ LET user == tick.users[tick.u + 1]
           t == [tick EXCEPT !.u = @ + 1, !.entered = @ \cup {user}]
           r == [IdlePass EXCEPT !.kind = "periodic", !.user = user]
       IN  \/ /\ pass' = [pass EXCEPT ![p] = [r EXCEPT !.pc = "raised"]]
              /\ tick' = UserRaised(t, user)
           \/ \E fetch \in Fetches(user) :
                /\ pass' = [pass EXCEPT ![p] =
                              IF fetch = <<>> THEN [r EXCEPT !.pc = "done"]
                              ELSE [r EXCEPT !.pc = "check", !.i = 1, !.emails = fetch]]
                /\ tick' = t
    /\ UNCHANGED <<ledger, tasks, last_email_check, mark_result, norm>>
    /\ UNCHANGED meetingVars
    /\ UNCHANGED schedVars

\* User.update_last_email_check raises: the routine of the user ends there
CheckpointRaises(p) ==
    /\ pass[p].pc = "checkpoint"
    /\ tick.pc = "users"
    /\ pass' = [pass EXCEPT ![p].pc = "raised"]
    /\ tick' = UserRaised(tick, pass[p].user)
    /\ UNCHANGED <<ledger, tasks, last_email_check, mark_result, norm>>
    /\ UNCHANGED meetingVars
    /\ UNCHANGED schedVars

\* for user in users: self._check_user_meetings(user), up to the fetch of
\* the calendar events, which returns them or raises
TickCallMeetingUser(d) ==
    /\ tick.pc = "users" /\ tick.kind = "meeting" /\ tick.u < Len(tick.users)
    /\ NoPassActive
    /\ disc[d].pc = "idle"
    /\ \A q \in Discs : q < d => disc[q].pc # "idle"
    /\ LET user == tick.users[tick.u + 1]
           t == [tick EXCEPT !.u = @ + 1, !.entered = @ \cup {user}]
           evs == Calendar(user, PeriodicDaysBack)
           r == [IdleDisc EXCEPT !.kind = "periodic", !.user = user]
       IN  \/ /\ disc' = [disc EXCEPT ![d] = [r EXCEPT !.pc = "raised"]]
              /\ tick' = UserRaised(t, user)
           \/ /\ disc' = [disc EXCEPT ![d] =
                            IF evs = <<>> THEN [r EXCEPT !.pc = "checkpoint"]
                            ELSE [r EXCEPT !.pc = "find", !.i = 1, !.events = evs]]
              /\ tick' = t
    /\ UNCHANGED <<meetings, transcripts, summaries, last_meeting_check, trig, run, norm>>
    /\ UNCHANGED emailVars
    /\ UNCHANGED schedVars

\* User.update_last_meeting_check raises
MeetingCheckpointRaises(d) ==
    /\ disc[d].pc = "checkpoint"
    /\ tick.pc = "users"
    /\ disc' = [disc EXCEPT ![d].pc = "raised"]
    /\ tick' = UserRaised(tick, disc[d].user)
    /\ UNCHANGED <<meetings, transcripts, summaries, last_meeting_check, trig, run, norm>>
    /\ UNCHANGED emailVars
    /\ UNCHANGED schedVars

\* the for loop over the users is exhausted
TickEnd ==
    /\ tick.pc = "users" /\ tick.u >= Len(tick.users)
    /\ NoPassActive
    /\ tick' = [tick EXCEPT !.pc = "ended"]
    /\ UNCHANGED norm
    /\ UNCHANGED emailVars
    /\ UNCHANGED meetingVars
    /\ UNCHANGED schedVars

----------------------------------------------------------------------------
(* The normalizer and the materializer: one extraction response, parsed by
   _parse_gemini_response or _parse_meeting_summary_response, and the Task
   created from each candidate *)

\* a JSON number where a string is expected
Number == "#20251122"

\* the values of a candidate's fields; None is a field that is absent or null
Priorities == {"high", "urgent", None}
Deadlines == {"2025-11-22", "friday", "", None, Number}
Assignees == {"Sarah", "bob@x.com", "Unassigned", "Team"}

\* title=action_item['description'][:100]
TitleLimit == 100

\* a text of more than TitleLimit characters, and its first TitleLimit
\* characters
LongText == "x * 101"
CutText == "x * 100"

\* len(v) of a text
len(v) ==
    IF v = LongText THEN TitleLimit + 1
    ELSE IF v = CutText THEN TitleLimit
    ELSE IF v = "" THEN 0
    ELSE 1

\* v[:100]
Truncated(v) == IF len(v) <= TitleLimit THEN v ELSE CutText

\* the task objects (action items) a response can hold: one without a title,
\* one without a description, complete ones, and ones with a long title or
\* a long description
Candidates ==
    {[title |-> None, description |-> "D", priority |-> "high", deadline |-> None,
      assigned_to |-> "Sarah"],
     [title |-> "T", description |-> None, priority |-> "high", deadline |-> None,
      assigned_to |-> "Sarah"]}
    \cup {[title |-> "T", description |-> "D", priority |-> pr, deadline |-> dl,
           assigned_to |-> "Sarah"] : pr \in Priorities, dl \in Deadlines}
    \cup {[title |-> "T", description |-> "D", priority |-> "high", deadline |-> None,
           assigned_to |-> a] : a \in Assignees}
    \cup {[title |-> LongText, description |-> "D", priority |-> "high", deadline |-> None,
            assigned_to |-> "Sarah"],
           [title |-> "T", description |-> LongText, priority |-> "high", deadline |-> None,
            assigned_to |-> "Sarah"]}

CandidateLists == UNION {[1..n -> Candidates] : n \in 0..MaxCandidates}

\* what stands between the code fences: a text that is no JSON, a JSON array,
\* or a JSON object with its flag (has_tasks in email mode; summary,
\* key_points and action_items all present in meeting mode) and its list of
\* task objects (tasks, respectively action_items)
Bodies ==
    {[type |-> ty, flag |-> FALSE, items |-> <<>>] : ty \in {"garbage", "array"}}
    \cup {[type |-> "object", flag |-> b, items |-> l] : b \in BOOLEAN, l \in CandidateLists}

\* what surrounds the body, as tokens (a blank, a code fence of three
\* backquotes, a code fence followed by json): nothing, a json fence, a plain fence with blanks,
\* a fence that is not closed, a doubled fence
Fences ==
    {[pre |-> <<>>, post |-> <<>>],
     [pre |-> <<"<fence json>", " ">>, post |-> <<" ", "<fence>">>],
     [pre |-> <<" ", "<fence>", " ">>, post |-> <<" ", "<fence>", " ">>],
     [pre |-> <<"<fence json>">>, post |-> <<>>],
     [pre |-> <<"<fence>", "<fence json>">>, post |-> <<"<fence>">>]}

Texts == {[pre |-> f.pre, body |-> b, post |-> f.post] : f \in Fences, b \in Bodies}

\* str.lstrip and str.rstrip on the tokens before and after the body
RECURSIVE lstrip(_)
lstrip(s) == IF s # <<>> /\ Head(s) = " " THEN lstrip(Tail(s)) ELSE s

RECURSIVE rstrip(_)
rstrip(s) == IF s # <<>> /\ s[Len(s)] = " " THEN rstrip(SubSeq(s, 1, Len(s) - 1)) ELSE s

\* strip(); the re.sub of a leading json fence and the blanks after it,
\* of a leading fence and the blanks after it, of a trailing fence and the
\* blanks before it; strip()
clean(text) ==
    LET pre1 == lstrip(text.pre)
        post1 == rstrip(text.post)
        pre2 == IF pre1 # <<>> /\ Head(pre1) = "<fence json>" THEN lstrip(Tail(pre1)) ELSE pre1
        pre3 == IF pre2 # <<>> /\ Head(pre2) = "<fence>" THEN lstrip(Tail(pre2)) ELSE pre2
        post2 == IF post1 # <<>> /\ post1[Len(post1)] = "<fence>"
                 THEN rstrip(SubSeq(post1, 1, Len(post1) - 1)) ELSE post1
    IN  [pre |-> lstrip(pre3), body |-> text.body, post |-> rstrip(post2)]

\* json.loads succeeds: nothing is left around a body that is JSON
json_loads_ok(text) ==
    text.pre = <<>> /\ text.post = <<>> /\ text.body.type # "garbage"

\* Python truthiness of a field value
Truthy(v) == v \notin {None, ""}

\* datetime.strptime(v, '%Y-%m-%d')
strptime(v) ==
    IF v = Number THEN "TypeError"
    ELSE IF v = "2025-11-22" THEN "ok"
    ELSE "ValueError"

\* the datetime object strptime returns
datetime(v) == "datetime(2025-11-22)"

\* if priority not in ['low', 'medium', 'high']: priority = 'medium'
KeepPriority(v) == v

normalize_priority(v) == IF v \in {"low", "medium", "high"} THEN v ELSE "medium"

\* the deadline of an email task: a datetime, or None
email_deadline(v) ==
    IF Truthy(v) THEN (IF strptime(v) = "ok" THEN datetime(v) ELSE None)
    ELSE None

\* the deadline of an action item: set to None on a ValueError, else as it was
meeting_deadline(v) ==
    IF Truthy(v) THEN (IF strptime(v) = "ok" THEN v ELSE None)
    ELSE v

\* if not task.get('title') or not task.get('description'): continue
HasRequired(c) == Truthy(c.title) /\ Truthy(c.description)

\* the validated tasks of an email response, in order; cand is the position
\* of the task object in the response
RECURSIVE validated_tasks(_, _)
validated_tasks(items, i) ==
    IF i > Len(items) THEN <<>>
    ELSE IF HasRequired(items[i])
    THEN <<[title |-> items[i].title, description |-> items[i].description,
            priority |-> normalize_priority(items[i].priority),
            deadline |-> email_deadline(items[i].deadline),
            assigned_to |-> items[i].assigned_to, cand |-> i]>>
         \o validated_tasks(items, i + 1)
    ELSE validated_tasks(items, i + 1)

\* the action items of a meeting response after the loop over them
processed_items(items) ==
    [i \in 1..Len(items) |->
        [title |-> items[i].title, description |-> items[i].description,
         priority |-> normalize_priority(items[i].priority),
         deadline |-> meeting_deadline(items[i].deadline),
         assigned_to |-> items[i].assigned_to, cand |-> i]]

NoResult == [error |-> None, none |-> TRUE, items |-> <<>>]

\* the try block of _parse_gemini_response: an error, None, or the dict with
\* the validated tasks
parse_email_try(text) ==
    LET c == clean(text)
        items == c.body.items
    IN  IF ~json_loads_ok(c) THEN [NoResult EXCEPT !.error = "JSONDecodeError"]
        ELSE IF c.body.type # "object" THEN NoResult
        ELSE IF ~c.body.flag THEN NoResult
        ELSE IF items = <<>> THEN NoResult
        ELSE IF \E i \in 1..Len(items) :
                   HasRequired(items[i]) /\ Truthy(items[i].deadline)
                   /\ strptime(items[i].deadline) = "TypeError"
        THEN [NoResult EXCEPT !.error = "TypeError"]
        ELSE IF validated_tasks(items, 1) = <<>> THEN NoResult
        ELSE [error |-> None, none |-> FALSE, items |-> validated_tasks(items, 1)]

\* the try block of _parse_meeting_summary_response
parse_meeting_try(text) ==
    LET c == clean(text)
        items == c.body.items
    IN  IF ~json_loads_ok(c) THEN [NoResult EXCEPT !.error = "JSONDecodeError"]
        ELSE IF c.body.type # "object" THEN NoResult
        ELSE IF ~c.body.flag THEN NoResult
        ELSE IF \E i \in 1..Len(items) :
                   Truthy(items[i].deadline) /\ strptime(items[i].deadline) = "TypeError"
        THEN [NoResult EXCEPT !.error = "TypeError"]
        ELSE [error |-> None, none |-> FALSE, items |-> processed_items(items)]

\* except json.JSONDecodeError: return None / except Exception: return None
CatchOnlyOthers(res) ==
    IF res.error = "JSONDecodeError" THEN [raised |-> TRUE, none |-> TRUE, items |-> <<>>]
    ELSE [raised |-> FALSE, none |-> res.none, items |-> res.items]

CatchAll(res) ==
    IF res.error # None THEN [raised |-> FALSE, none |-> TRUE, items |-> <<>>]
    ELSE [raised |-> FALSE, none |-> res.none, items |-> res.items]

\* GeminiService._parse_gemini_response(response_text)
parse_gemini_response_text(text) == CatchAll(parse_email_try(text))

\* GeminiService._parse_meeting_summary_response(response_text)
parse_meeting_summary_response(text) == CatchAll(parse_meeting_try(text))

\* assigned_to=user_id  # Default to meeting owner
AssigneeFromText(c, owner) ==
    IF \E u \in Users : UserEmail(u) = c.assigned_to
    THEN CHOOSE u \in Users : UserEmail(u) = c.assigned_to
    ELSE owner

MeetingAssignee(c, owner) == owner

\* the user the response belongs to, and their email or meeting
NormOwner == "u1"

\* Task.create(...) of _process_email_for_tasks for a validated task
EmailTaskFrom(c, k) ==
    [_id |-> <<"norm", k>>, source_type |-> "email", cand |-> c.cand,
     title |-> c.title, priority |-> c.priority, deadline |-> c.deadline,
     assigned_to |-> NormOwner, created_by |-> NormOwner,
     user_email |-> UserEmail(NormOwner)]

\* Task.create(...) of process_meeting for an action item
MeetingTaskFrom(c, k) ==
    [_id |-> <<"norm", k>>, source_type |-> "meeting", cand |-> c.cand,
     title |-> Truncated(c.description), priority |-> c.priority, deadline |-> c.deadline,
     assigned_to |-> MeetingAssignee(c, NormOwner), created_by |-> NormOwner,
     user_email |-> UserEmail(NormOwner)]

IdleNorm == [pc |-> "idle", mode |-> "none", text |-> <<>>, raised |-> FALSE,
             none |-> TRUE, items |-> <<>>, k |-> 0]

\* the response text is parsed in the mode of the call
Normalize ==
    /\ norm.pc = "input"
    /\ LET res == IF norm.mode = "email" THEN parse_gemini_response_text(norm.text)
                  ELSE parse_meeting_summary_response(norm.text)
       IN  norm' = [norm EXCEPT !.pc = IF res.raised \/ res.none \/ res.items = <<>>
                                       THEN "done" ELSE "create",
                                !.raised = res.raised, !.none = res.none,
                                !.items = res.items, !.k = 0]
    /\ UNCHANGED tick
    /\ UNCHANGED emailVars
    /\ UNCHANGED meetingVars
    /\ UNCHANGED schedVars

\* one iteration of the loop over the candidates: Task.create with the fields
\* of the candidate; action_item['description'] of an action item without
\* a description raises, which is caught and the loop goes on
Materialize ==
    /\ norm.pc = "create"
    /\ LET c == norm.items[norm.k + 1]
       IN  tasks' = IF norm.mode = "email" THEN tasks \cup {EmailTaskFrom(c, norm.k)}
                    ELSE IF c.description = None THEN tasks
                    ELSE tasks \cup {MeetingTaskFrom(c, norm.k)}
    /\ norm' = [norm EXCEPT !.k = @ + 1,
                            !.pc = IF norm.k + 1 = Len(norm.items) THEN "done" ELSE "create"]
    /\ UNCHANGED <<ledger, last_email_check, pass, mark_result, tick>>
    /\ UNCHANGED meetingVars
    /\ UNCHANGED schedVars

\* the responses the extraction service can give, in each mode
InitNorm ==
    \E mode \in {"email", "meeting"}, text \in Texts :
        norm = [IdleNorm EXCEPT !.pc = "input", !.mode = mode, !.text = text]

----------------------------------------------------------------------------
(* Manual creation: POST /tasks, and the creation paths side by side *)

\* the assigned_to_email of a request: absent, a user's address, an unknown one
AssigneeEmails == {None, "alice@x.com", "bob@x.com", "carol@x.com"}

\* User.find_by_email(email)
find_by_email(email) ==
    IF \E u \in Users : UserEmail(u) = email
    THEN CHOOSE u \in Users : UserEmail(u) = email
    ELSE None

ManualTasks == {t \in tasks : t.source_type = "manual"}

\* Task.create(...) of TaskList.post
ManualTask(caller, assignee) ==
    [_id |-> <<"manual", Cardinality(ManualTasks) + 1, 0, 0>>,
     source_type |-> "manual",
     email_id |-> None,
     meeting_id |-> <<>>,
     assigned_to |-> assignee,
     created_by |-> caller,
     user_email |-> UserEmail(caller)]

\* no process_meeting run and no trigger handler is under way
NoRunActive ==
    \A h \in Triggers : trig[h].pc # "eager" /\ run[h].pc \in {"none", "done"}

\* TaskList.post: 400 without a title, 404 for an assignee address that
\* belongs to no user, else the task is inserted
CreateManualTask ==
    /\ Cardinality(ManualTasks) < MaxManual
    /\ NoPassActive
    /\ NoRunActive
    /\ \E caller \in Users, has_title \in BOOLEAN, assigned_to_email \in AssigneeEmails :
         tasks' = IF ~has_title THEN tasks
                  ELSE IF assigned_to_email = None
                  THEN tasks \cup {ManualTask(caller, caller)}
                  ELSE IF find_by_email(assigned_to_email) = None THEN tasks
                  ELSE tasks \cup {ManualTask(caller, find_by_email(assigned_to_email))}
    /\ UNCHANGED <<ledger, last_email_check, pass, mark_result>>
    /\ UNCHANGED meetingVars
    /\ UNCHANGED schedVars
    /\ UNCHANGED auxVars

InitAux ==
    /\ tick = IdleTick
    /\ norm = IdleNorm

----------------------------------------------------------------------------

InitEmail ==
    /\ ledger = {}
    /\ tasks = {}
    /\ last_email_check = [u \in Users |-> 0]
    /\ pass = [p \in Passes |-> IdlePass]
    /\ mark_result = [calls |-> 0, email_id |-> "none", user_id |-> "none",
                      tasks_created |-> 0, raised |-> FALSE]

InitMeeting ==
    /\ meetings = {}
    /\ transcripts = {}
    /\ summaries = {}
    /\ last_meeting_check = [u \in Users |-> 0]
    /\ disc = [d \in Discs |-> IdleDisc]
    /\ trig = [h \in Triggers |-> IdleTrigger]
    /\ run = [h \in Triggers |-> NoRun]

Init == InitEmail /\ InitMeeting /\ InitSched /\ InitAux

\* the store once a periodic tick has inserted the meeting of u1's calendar
DiscoveredMeetings ==
    {NewMeeting(<<0, i>>, Calendar("u1", PeriodicDaysBack)[i], "u1") :
        i \in 1..Len(Calendar("u1", PeriodicDaysBack))}

InitDiscovered ==
    /\ InitEmail
    /\ InitSched
    /\ InitAux
    /\ meetings = DiscoveredMeetings
    /\ transcripts = {}
    /\ summaries = {}
    /\ last_meeting_check = [u \in Users |-> IF Calendar(u, PeriodicDaysBack) = <<>> THEN 0 ELSE 1]
    /\ disc = [d \in Discs |-> IdleDisc]
    /\ trig = [h \in Triggers |-> IdleTrigger]
    /\ run = [h \in Triggers |-> NoRun]

\* the failed write of a run that found no document
FailedMeeting(m) ==
    [m EXCEPT !.processing_status = "failed", !.error_message = SearchError("no_document")]

\* the stores a /meetings/sync of u1 leaves behind, each meeting pending or
\* failed by a run that found no document; the calendar may have grown since
SyncedStores ==
    {S \in SUBSET {x \in UNION {{NewMeeting(<<0, i>>, Calendar("u1", SyncDaysBack)[i], "u1"),
                                  FailedMeeting(NewMeeting(<<0, i>>,
                                                Calendar("u1", SyncDaysBack)[i], "u1"))} :
                                  i \in 1..Len(Calendar("u1", SyncDaysBack))} : TRUE} :
        \A a, b \in S : a._id = b._id => a = b}

InitSynced ==
    /\ InitEmail
    /\ InitSched
    /\ InitAux
    /\ meetings \in SyncedStores
    /\ transcripts = {}
    /\ summaries = {}
    /\ last_meeting_check = [u \in Users |-> 0]
    /\ disc = [d \in Discs |-> IdleDisc]
    /\ trig = [h \in Triggers |-> IdleTrigger]
    /\ run = [h \in Triggers |-> NoRun]

Next ==
    \/ \E p \in Passes : StartPass(p)
    \/ \E p \in Passes : CheckEmail(p)
    \/ \E p \in Passes : ExtractEmail(p)
    \/ \E p \in Passes : CreateEmailTask(p)
    \/ \E p \in Passes : MarkEmail(p)
    \/ \E p \in Passes : Checkpoint(p)

Spec == Init /\ [][Next]_vars

\* the passes of one worker, one after the other, each of which may be cut
\* short
StartNextPass(p) ==
    /\ \A q \in Passes : pass[q].pc \in {"idle", "done", "stopped"}
    /\ StartPass(p)

NextInterrupted ==
    \/ \E p \in Passes : StartNextPass(p)
    \/ \E p \in Passes : CheckEmail(p)
    \/ \E p \in Passes : ExtractEmail(p)
    \/ \E p \in Passes : CreateEmailTask(p)
    \/ \E p \in Passes : MarkEmail(p)
    \/ \E p \in Passes : Checkpoint(p)
    \/ \E p \in Passes : StopPass(p)

SpecInterrupted == Init /\ [][NextInterrupted]_vars

NextDiscovery ==
    \/ \E d \in Discs : StartDisc(d)
    \/ \E d \in Discs : FindEvent(d)
    \/ \E d \in Discs : CreateMeeting(d)
    \/ \E d \in Discs : MeetingCheckpoint(d)

SpecDiscovery == Init /\ [][NextDiscovery]_vars

SpecRediscovery == InitSynced /\ [][NextDiscovery]_vars

NextMeeting ==
    \/ \E h \in Triggers : TriggerPost(h)
    \/ \E h \in Triggers : TriggerEagerWrite(h)
    \/ \E h \in Triggers : RunSetProcessing(h)
    \/ \E h \in Triggers : RunSearch(h)
    \/ \E h \in Triggers : RunSummarize(h)
    \/ \E h \in Triggers : RunCreateTask(h)
    \/ \E h \in Triggers : RunComplete(h)
    \/ \E h \in Triggers : RunExcept(h)

SpecMeeting == InitDiscovered /\ [][NextMeeting]_vars

NextLedger == MarkAsProcessed

NextScheduler ==
    \/ \E c \in Calls : StartPollingTest(c)
    \/ \E c \in Calls : StartPollingSet(c)
    \/ \E c \in Calls : StartPollingAssign(c)
    \/ \E c \in Calls : StartPollingSpawn(c)
    \/ \E c \in Calls : StopPollingClear(c)
    \/ \E c \in Calls : StopPollingRead(c)
    \/ \E c \in Calls : StopPollingJoin(c)
    \/ \E w \in Calls : PollLoopTest(w)
    \/ \E w \in Calls : TickStep(w)
    \/ \E w \in Calls : SleepTest(w)
    \/ \E w \in Calls : SleepWake(w)

NextTick ==
    \/ TickBegin
    \/ \E p \in Passes : TickCallEmailUser(p)
    \/ \E p \in Passes : CheckEmail(p)
    \/ \E p \in Passes : ExtractEmail(p)
    \/ \E p \in Passes : CreateEmailTask(p)
    \/ \E p \in Passes : MarkEmail(p)
    \/ \E p \in Passes : Checkpoint(p)
    \/ \E p \in Passes : CheckpointRaises(p)
    \/ \E d \in Discs : TickCallMeetingUser(d)
    \/ \E d \in Discs : FindEvent(d)
    \/ \E d \in Discs : CreateMeeting(d)
    \/ \E d \in Discs : MeetingCheckpoint(d)
    \/ \E d \in Discs : MeetingCheckpointRaises(d)
    \/ TickEnd

SpecTick == Init /\ [][NextTick]_vars

NextNormalizer ==
    \/ Normalize
    \/ Materialize

\* empty stores, and one response about to be parsed
InitNormalizer == InitEmail /\ InitMeeting /\ InitSched /\ tick = IdleTick /\ InitNorm

SpecNormalizer == InitNormalizer /\ [][NextNormalizer]_vars

\* The email path and the meeting path share no state but the tasks
\* collection, to which each only adds: a behaviour follows one of the two,
\* with manual creations before, between and after its passes or runs.
\* an email pass, periodic or manual sync, after the previous one
CreationStartPass(p) ==
    /\ \A h \in Triggers : trig[h].pc = "idle"
    /\ StartNextPass(p)

\* a process trigger, after the run of the previous one
CreationTrigger(h) ==
    /\ \A q \in Passes : pass[q].pc = "idle"
    /\ NoRunActive
    /\ TriggerPost(h)

NextCreation ==
    \/ \E p \in Passes : CreationStartPass(p)
    \/ \E p \in Passes : CheckEmail(p)
    \/ \E p \in Passes : ExtractEmail(p)
    \/ \E p \in Passes : CreateEmailTask(p)
    \/ \E p \in Passes : MarkEmail(p)
    \/ \E p \in Passes : Checkpoint(p)
    \/ \E h \in Triggers : CreationTrigger(h)
    \/ \E h \in Triggers : TriggerEagerWrite(h)
    \/ \E h \in Triggers : RunSetProcessing(h)
    \/ \E h \in Triggers : RunSearch(h)
    \/ \E h \in Triggers : RunSummarize(h)
    \/ \E h \in Triggers : RunCreateTask(h)
    \/ \E h \in Triggers : RunComplete(h)
    \/ \E h \in Triggers : RunExcept(h)
    \/ CreateManualTask

SpecCreation == InitDiscovered /\ [][NextCreation]_vars

SpecScheduler == Init /\ [][NextScheduler]_vars

\* the worker threads are scheduled fairly and their external calls return
SpecSchedulerFair ==
    /\ SpecScheduler
    /\ \A w \in Calls :
          WF_vars(PollLoopTest(w) \/ TickStep(w) \/ SleepTest(w) \/ SleepWake(w))

\* no call of start_polling or stop_polling is under way
NoCallActive == \A q \in Calls : call[q].pc \in {"idle", "returned"}

\* start_polling and stop_polling called one after the other, as by one
\* thread of the application
SerialStart(c) == NoCallActive /\ StartPollingTest(c)

SerialStop(c) == NoCallActive /\ StopPollingClear(c)

\* the scheduler with ticks that may raise
NextSchedulerFaulty ==
    \/ \E c \in Calls : SerialStart(c)
    \/ \E c \in Calls : StartPollingSet(c)
    \/ \E c \in Calls : StartPollingAssign(c)
    \/ \E c \in Calls : StartPollingSpawn(c)
    \/ \E c \in Calls : SerialStop(c)
    \/ \E c \in Calls : StopPollingRead(c)
    \/ \E c \in Calls : StopPollingJoin(c)
    \/ \E w \in Calls : PollLoopTest(w)
    \/ \E w \in Calls : TickStep(w)
    \/ \E w \in Calls : TickRaises(w)
    \/ \E w \in Calls : TickResume(w)
    \/ \E w \in Calls : SleepTest(w)
    \/ \E w \in Calls : SleepWake(w)

\* the worker threads are scheduled fairly and their external calls return
\* or raise
SpecSchedulerFaulty ==
    /\ Init
    /\ [][NextSchedulerFaulty]_vars
    /\ \A w \in Calls :
          WF_vars(PollLoopTest(w) \/ TickStep(w) \/ TickRaises(w) \/ TickResume(w)
                  \/ SleepTest(w) \/ SleepWake(w))

SpecLedger == Init /\ [][NextLedger]_vars

----------------------------------------------------------------------------
(* Properties of the email pipeline *)

\* the pass that created an email task
CreatorPass(t) == t._id[2]

EmailTasksOf(e, u) ==
    {t \in tasks : t.source_type = "email" /\ t.email_id = e /\ t.assigned_to = u}

LedgerRecordsOf(e, u) == {d \in ledger : d.email_id = e /\ d.user_id = u}

\* C1: the tasks of one email of one user all come from a single pass,
\* whatever the interleaving of the passes that fetched it.
C1_TasksFromSinglePass ==
    \A e \in Emails, u \in Users :
        \A t1, t2 \in EmailTasksOf(e, u) : CreatorPass(t1) = CreatorPass(t2)

\* C2: the ledger holds at most one record per (email_id, user_id).
C2_LedgerUnique ==
    \A e \in Emails, u \in Users : Cardinality(LedgerRecordsOf(e, u)) <= 1

\* two finished passes both went through the same email of the same user
C2_Witness ==
    \E e \in Emails, u \in Users :
        /\ \E t1, t2 \in EmailTasksOf(e, u) : CreatorPass(t1) # CreatorPass(t2)
        /\ \A p \in Passes : pass[p].pc = "done"
        /\ Cardinality(LedgerRecordsOf(e, u)) = 1

\* C3: a mark_as_processed call for a pair that already has a record fails
\* with a uniqueness violation and leaves the stored record as it was.
C3_SecondMarkFails ==
    [][\A e \in Emails, u \in Users :
          (/\ LedgerRecordsOf(e, u) # {}
           /\ mark_result'.calls = mark_result.calls + 1
           /\ mark_result'.email_id = e
           /\ mark_result'.user_id = u)
          => (/\ mark_result'.raised
              /\ {d \in ledger' : d.email_id = e /\ d.user_id = u} = LedgerRecordsOf(e, u))]_vars

\* a second call with another count has failed, the first count is stored
C3_Witness ==
    /\ mark_result.raised
    /\ \E d \in LedgerRecordsOf(mark_result.email_id, mark_result.user_id) :
          d.tasks_created # mark_result.tasks_created

SenderIsOwner(e, u) ==
    \E i \in 1..Len(FromHeader(e)) : lower(FromHeader(e)[i]) = lower(UserEmail(u))

\* C5: an email sent by the owning user produces no ledger record and no
\* task, in the periodic pass and in the manual sync.
C5_SelfSentIgnored ==
    \A e \in Emails, u \in Users :
        SenderIsOwner(e, u) => LedgerRecordsOf(e, u) = {} /\ EmailTasksOf(e, u) = {}

\* a periodic pass and a manual sync have both finished over a self-sent email
C5_Witness ==
    \E p, q \in Passes :
        /\ pass[p].pc = "done" /\ pass[p].kind = "periodic"
        /\ pass[q].pc = "done" /\ pass[q].kind = "manual"
        /\ \E i \in 1..Len(pass[p].emails) : SenderIsOwner(pass[p].emails[i], pass[p].user)
        /\ \E i \in 1..Len(pass[q].emails) : SenderIsOwner(pass[q].emails[i], pass[q].user)

----------------------------------------------------------------------------
(* Properties of meeting discovery and processing *)

MeetingsOf(ev, u) == {m \in meetings : m.calendar_event_id = ev /\ m.user_id = u}

\* C6: there is at most one Meeting per (calendar_event_id, user_id), also
\* when the periodic pass and /meetings/sync discover the same event at once.
C6_MeetingUnique ==
    \A ev \in Events, u \in Users : Cardinality(MeetingsOf(ev, u)) <= 1

\* a periodic pass and a sync both tried to insert the same event: one
\* insert failed and one meeting is stored
C6_Witness ==
    \E d, q \in Discs :
        /\ disc[d].pc = "done" /\ disc[d].kind = "periodic"
        /\ disc[q].pc = "done" /\ disc[q].kind = "manual"
        /\ disc[d].user = disc[q].user
        /\ disc[d].errors + disc[q].errors > 0
        /\ \E ev \in Events : Cardinality(MeetingsOf(ev, disc[d].user)) = 1

TranscriptsBy(h) == {t \in transcripts : t._id = <<h>>}
SummariesBy(h) == {x \in summaries : x._id = <<h>>}
TasksBy(h) == {t \in tasks : t.source_type = "meeting" /\ t._id[2] = h}

StoredStatus(coll, id) == find_by_id(coll, id).processing_status

\* C8: a process trigger on a meeting whose stored status is processing is
\* answered with an error, starts no run and leaves the meetings unchanged.
C8_BusyTriggerRejected ==
    [][\A h \in Triggers :
          (/\ trig[h].pc = "idle"
           /\ trig'[h].pc # "idle"
           /\ trig'[h].meeting # <<>>
           /\ StoredStatus(meetings, trig'[h].meeting) = "processing")
          => (/\ trig'[h].pc = "rejected"
              /\ trig'[h].response \in {400, 403}
              /\ run' = run
              /\ meetings' = meetings)]_vars

\* the owner's trigger on a meeting in processing got the 400 response
C8_Witness ==
    \E h \in Triggers :
        /\ trig[h].pc = "rejected" /\ trig[h].response = 400
        /\ run[h].pc = "none"
        /\ StoredStatus(meetings, trig[h].meeting) = "processing"

\* no other trigger is at work on the meeting of run h
NoOtherTrigger(h) ==
    \A q \in Triggers \ {h} :
        trig[q].meeting = run[h].meeting =>
            trig[q].pc \in {"rejected", "responded"} /\ run[q].pc \in {"none", "done"}

\* C9: when a run returns, with no other trigger at work on the meeting and
\* its status writes succeeding, the stored status is completed or failed,
\* also when a step of the run raised.
C9_RunEndsCompletedOrFailed ==
    [][\A h \in Triggers :
          (/\ run[h].pc \notin {"none", "done"}
           /\ run'[h].pc = "done"
           /\ ~run'[h].wfail
           /\ NoOtherTrigger(h))
          => StoredStatus(meetings', run[h].meeting) \in {"completed", "failed"}]_vars

\* a run that raised after the transcript was saved has returned
C9_Witness ==
    \E h \in Triggers :
        /\ run[h].pc = "done" /\ ~run[h].wfail
        /\ run[h].err = "Failed to generate summary"
        /\ TranscriptsBy(h) # {}
        /\ StoredStatus(meetings, run[h].meeting) = "failed"

\* C10: a completed meeting stays completed: a process trigger on it is
\* refused, and no step moves it to processing or failed.
C10_CompletedIsFinal ==
    [][/\ \A m \in meetings :
            m.processing_status = "completed" =>
                StoredStatus(meetings', m._id) = "completed"
       /\ \A h \in Triggers :
            (/\ trig[h].pc = "idle"
             /\ trig'[h].pc # "idle"
             /\ trig'[h].meeting # <<>>
             /\ StoredStatus(meetings, trig'[h].meeting) = "completed")
            => trig'[h].pc = "rejected"]_vars

\* C11: a step of a periodic discovery pass leaves every stored meeting as
\* it was (a failed one stays failed, a pending one stays pending), inserts
\* only meetings with status pending, and creates no transcript, summary or
\* task.
C11_TickOnlyDiscovers ==
    [][\A d \in Discs :
          (disc'[d] # disc[d] /\ disc'[d].kind = "periodic")
          => (/\ meetings \subseteq meetings'
              /\ \A m \in meetings' \ meetings : m.processing_status = "pending"
              /\ transcripts' = transcripts
              /\ summaries' = summaries
              /\ tasks' = tasks)]_vars

\* a periodic pass has gone over an event whose stored meeting is failed and
\* has written its checkpoint; the meeting is still failed
C11_Witness ==
    \E d \in Discs :
        /\ disc[d].kind = "periodic" /\ disc[d].pc = "done"
        /\ last_meeting_check[disc[d].user] > 0
        /\ \E i \in 1..Len(disc[d].events) :
              \E m \in MeetingsOf(disc[d].events[i], disc[d].user) :
                  m.processing_status = "failed"

----------------------------------------------------------------------------
(* Properties of the polling service *)

\* C12: a start_polling call that finds is_running true returns at once:
\* no worker is created or started, and is_running, poll_interval and
\* polling_thread are as before.
C12_StartWhileRunningNoOp ==
    [][\A c \in Calls :
          (/\ call[c].pc = "idle"
           /\ call'[c].kind = "start"
           /\ is_running)
          => (/\ call'[c].pc = "returned"
              /\ worker' = worker
              /\ is_running' = is_running
              /\ poll_interval' = poll_interval
              /\ polling_thread' = polling_thread)]_vars

\* a second start_polling returned without effect while the worker of the
\* first is alive
C12_Witness ==
    \E c \in Calls :
        /\ call[c].kind = "start" /\ call[c].result = "noop"
        /\ is_running
        /\ polling_thread # 0 /\ polling_thread # c /\ Alive(polling_thread)

\* C13: at most one worker loop is alive at any time, whatever the
\* interleaving of the start_polling and stop_polling calls.
C13_AtMostOneWorker ==
    Cardinality({w \in Calls : Alive(w)}) <= 1

\* C14: once the flag is cleared and not set again, every worker loop ends;
\* and no worker begins a sleep increment while the flag is clear, so a
\* sleeping worker ends after the increment it is in.
C14_StopEndsWorker ==
    /\ (<>[](~is_running)) => <>[](\A w \in Calls : ~Alive(w))
    /\ [][\A w \in Calls :
             (worker[w].pc # "sleeping" /\ worker'[w].pc = "sleeping") => is_running]_vars

\* a stop_polling call has joined a started worker, which has ended
C14_Witness ==
    \E c \in Calls :
        /\ call[c].kind = "stop" /\ call[c].result = "joined"
        /\ worker[call[c].target].pc = "exited"
        /\ ~is_running

\* C15: a worker inside a tick starts a further item or a further user only
\* while the flag is set: after stop_polling has cleared it, the worker
\* finishes the item it is in and goes on to no other.
C15_StopBetweenItems ==
    [][\A w \in Calls :
          (worker[w].pc = "tick" /\ worker'[w].pc = "tick" /\ worker'[w] # worker[w])
          => is_running]_vars

----------------------------------------------------------------------------
(* Properties of the checkpoints, of interrupted passes and of extraction *)

\* the periodic email passes of a user that have returned
ReturnedEmailPasses(u) ==
    {p \in Passes : pass[p].kind = "periodic" /\ pass[p].user = u /\ pass[p].pc = "done"}

\* the periodic discovery passes of a user that have returned
ReturnedDiscoveryPasses(u) ==
    {d \in Discs : disc[d].kind = "periodic" /\ disc[d].user = u /\ disc[d].pc = "done"}

\* C16: every periodic per-user pass that has returned has written the
\* user's checkpoint exactly once, whether or not its fetch returned items:
\* the number of writes of last_email_check (last_meeting_check) is the
\* number of returned email (discovery) passes of the user.
C16_CheckpointOncePerPass ==
    \A u \in Users :
        /\ last_email_check[u] = Cardinality(ReturnedEmailPasses(u))
        /\ last_meeting_check[u] = Cardinality(ReturnedDiscoveryPasses(u))

\* the email has been through the pass: it is self-sent or in the ledger
Handled(e, u) == SenderIsOwner(e, u) \/ LedgerRecordsOf(e, u) # {}

C18_NoRematerialization ==
    \A p, q \in Passes :
        (pass[p].pc = "stopped" /\ p < q /\ pass[q].user = pass[p].user) =>
            \A e \in Emails :
                ~\E t1, t2 \in EmailTasksOf(e, pass[p].user) :
                    CreatorPass(t1) = p /\ CreatorPass(t2) = q

\* the tasks a pass has created for the email at position i of its fetch
TasksOfItem(coll, p, i) ==
    {t \in coll : t.source_type = "email" /\ t._id[1] = "pass" /\ t._id[2] = p /\ t._id[3] = i}

C20_TransientErrorNotLedgered ==
    [][\A p \in Passes :
          (pass[p].pc = "mark" /\ pass[p].resp = "error" /\ pass'[p] # pass[p])
          => ledger' = ledger]_vars

----------------------------------------------------------------------------
(* Properties of a tick *)

\* C21: a tick ends only when the routine of every user of the enumeration
\* has been called, also when the routine of an earlier user raised.
C21_TickReachesEveryUser ==
    [][(tick.pc = "users" /\ tick'.pc = "ended") =>
          \A k \in 1..Len(tick.users) : tick.users[k] \in tick.entered]_vars

\* the routine of the first user raised, the routine of a later user has
\* run to its checkpoint, and the tick has ended (email or meeting poller)
C21_Witness ==
    /\ tick.pc = "ended" /\ Len(tick.users) > 1
    /\ tick.users[1] \in tick.raised
    /\ \E k \in 2..Len(tick.users) :
          /\ tick.users[k] \notin tick.raised
          /\ IF tick.kind = "email" THEN last_email_check[tick.users[k]] > 0
                                    ELSE last_meeting_check[tick.users[k]] > 0

\* the task objects of the response being normalized, as received
InputItems == norm.text.body.items

\* the response is JSON once cleaned, and an object that announces tasks
AnnouncesTasks ==
    /\ json_loads_ok(clean(norm.text))
    /\ norm.text.body.type = "object"
    /\ norm.text.body.flag

\* a deadline that is a string and is not a calendar date
UnparseableString(v) == v \notin {None, Number} /\ v # "2025-11-22"

\* C22: when an email response that announces tasks has been handled, the
\* Tasks created are those of exactly the task objects that have a title and
\* a description: the others are dropped, every valid sibling is created.
C22_InvalidDroppedSiblingsKept ==
    (norm.mode = "email" /\ norm.pc = "done" /\ AnnouncesTasks) =>
        {t.cand : t \in tasks} = {i \in 1..Len(InputItems) : HasRequired(InputItems[i])}

\* C23: the normalizer output and the Task of a candidate have the priority
\* of the candidate if it is low, medium or high, and medium otherwise.
C23_PriorityNormalized ==
    LET Expected(i) == IF InputItems[i].priority \in {"low", "medium", "high"}
                       THEN InputItems[i].priority ELSE "medium"
    IN  norm.pc \in {"create", "done"} =>
            /\ \A j \in 1..Len(norm.items) : norm.items[j].priority = Expected(norm.items[j].cand)
            /\ \A t \in tasks : t.priority = Expected(t.cand)

C23_Witness ==
    /\ norm.pc = "done"
    /\ \E t \in tasks : InputItems[t.cand].priority = "urgent" /\ t.priority = "medium"
    /\ \E t \in tasks : InputItems[t.cand].priority = "high" /\ t.priority = "high"

\* C24: the Task of a candidate whose deadline is a string that is not a
\* calendar date has no deadline.
C24_UnparseableDeadlineIsNull ==
    \A t \in tasks :
        norm.pc \in {"create", "done"} /\ UnparseableString(InputItems[t.cand].deadline)
            => t.deadline = None

\* C25: once a response text that is not JSON (bare or between code fences)
\* has been handled, in either mode, the normalizer has returned no
\* candidates and has raised nothing, and no Task is created.
C25_NotJsonGivesNoCandidates ==
    (norm.pc \in {"create", "done"}
     /\ (norm.text.body.type = "garbage" \/ ~json_loads_ok(clean(norm.text)))) =>
        norm.none /\ ~norm.raised /\ norm.pc = "done" /\ tasks = {}

C25_Witness ==
    /\ norm.pc = "done"
    /\ norm.text.body.type = "garbage"
    /\ norm.text.pre # <<>>
    /\ norm.none
    /\ ~norm.raised

\* C28: a Task created from a meeting action item is assigned to and created
\* by the owner of the meeting, whatever the assignee text of the item.
C28_MeetingTaskAssignedToOwner ==
    \A t \in tasks :
        (norm.pc \in {"create", "done"} /\ t.source_type = "meeting") =>
            t.assigned_to = NormOwner /\ t.created_by = NormOwner

C28_Witness ==
    /\ norm.pc = "done"
    /\ norm.mode = "meeting"
    /\ \E t \in tasks : InputItems[t.cand].assigned_to = "bob@x.com" /\ t.assigned_to = NormOwner
    /\ \E t \in tasks : InputItems[t.cand].assigned_to = "Team" /\ t.assigned_to = NormOwner

\* C26: a Task of an email pass (periodic or manual sync) carries the email
\* address of the user of the pass, a Task of a meeting run the address of
\* the owner of the meeting.
C26_TaskCarriesOwnerEmail ==
    \A t \in tasks :
        /\ t.source_type = "email" => t.user_email = UserEmail(pass[CreatorPass(t)].user)
        /\ t.source_type = "meeting" =>
               \A m \in meetings : m._id = t.meeting_id => t.user_email = UserEmail(m.user_id)

C26_Witness ==
    \E t1, t2 \in tasks :
        /\ t1.source_type = "email" /\ pass[CreatorPass(t1)].kind = "periodic"
        /\ t2.source_type = "email" /\ pass[CreatorPass(t2)].kind = "manual"
        /\ pass[CreatorPass(t1)].user # pass[CreatorPass(t2)].user
        /\ t1.user_email = UserEmail(pass[CreatorPass(t1)].user)
        /\ t2.user_email = UserEmail(pass[CreatorPass(t2)].user)

\* C27: no Task is assigned to a user while carrying a user_email that is
\* set and is not the address of that user.
C27_NoCrossUserContamination ==
    \A t \in tasks : \A u \in Users :
        (t.assigned_to = u /\ t.user_email # None) => t.user_email = UserEmail(u)

\* the action items of the summary of meeting mid that carry a task_id
BackReferenced(coll, mid) ==
    {i \in 1..MaxItems + 1 :
        \E x \in coll : x.meeting_id = mid /\ i \in DOMAIN x.action_items
                        /\ x.action_items[i].task_id # None}

\* C29: a task_id in action item i of a summary is the id of the Task
\* created from item i by the run that wrote the summary, a Task of the
\* meeting of the summary; an item whose Task was not created has no task_id.
C29_BackReferenceNamesItsTask ==
    \A x \in summaries : \A i \in DOMAIN x.action_items :
        LET tid == x.action_items[i].task_id
        IN  /\ tid # None =>
                 /\ tid = <<"run", x._id[1], i - 1, 0>>
                 /\ \E t \in tasks : t._id = tid /\ t.meeting_id = x.meeting_id
            /\ (~\E t \in tasks : t._id = <<"run", x._id[1], i - 1, 0>>) => tid = None

C29_Witness ==
    \E h \in Triggers : \E x \in summaries :
        /\ run[h].pc = "done" /\ run[h].result = "True"
        /\ x._id = <<h>>
        /\ Len(x.action_items) = 2
        /\ x.action_items[1].task_id = None
        /\ ~\E t \in tasks : t._id = <<"run", h, 0, 0>>
        /\ x.action_items[2].task_id = <<"run", h, 1, 0>>
        /\ \E t \in tasks : t._id = <<"run", h, 1, 0>> /\ t.meeting_id = x.meeting_id

NormalizerFailedRunEnds(h) ==
    /\ run[h].pc \notin {"none", "done"}
    /\ run'[h].pc = "done"
    /\ run'[h].err = "Failed to generate summary"

\* C31 as stated: when a run in which the normalizer gave no result returns,
\* the meeting is failed with a non-empty error_message, and the run has
\* created no summary and no task.
C31_NormalizerFailureFails ==
    [][\A h \in Triggers :
          NormalizerFailedRunEnds(h) =>
              /\ StoredStatus(meetings', run[h].meeting) = "failed"
              /\ find_by_id(meetings', run[h].meeting).error_message \notin {None, ""}
              /\ SummariesBy(h)' = {} /\ TasksBy(h)' = {}]_vars

\* C31, amended: the same when the write of the failed status in the except
\* block succeeds; when that write raises, the run returns all the same,
\* with no summary and no task.
C31_NormalizerFailureFailsIfWritten ==
    [][\A h \in Triggers :
          NormalizerFailedRunEnds(h) =>
              /\ run'[h].result = "False"
              /\ SummariesBy(h)' = {} /\ TasksBy(h)' = {}
              /\ ~run'[h].wfail =>
                    /\ StoredStatus(meetings', run[h].meeting) = "failed"
                    /\ find_by_id(meetings', run[h].meeting).error_message
                         = "Failed to generate summary"]_vars

C31_Witness ==
    \E h \in Triggers :
        /\ run[h].pc = "done" /\ ~run[h].wfail
        /\ run[h].err = "Failed to generate summary"
        /\ run[h].result = "False"
        /\ StoredStatus(meetings, run[h].meeting) = "failed"
        /\ find_by_id(meetings, run[h].meeting).error_message = "Failed to generate summary"
        /\ SummariesBy(h) = {} /\ TasksBy(h) = {}

\* C32: in a pass the steps of an email follow each other as dedup check,
\* extraction, task creation, ledger write: the extraction service is called
\* only right after a dedup check that found no ledger record of the email
\* for the user, tasks are created only after the extraction, and the ledger
\* is written only after the extraction or the last creation.
C32_CheckBeforeExtraction ==
    [][\A p \in Passes :
          pass'[p] # pass[p] =>
              /\ pass'[p].pc = "extract" =>
                    /\ pass[p].pc = "check"
                    /\ pass'[p].i = pass[p].i
                    /\ LedgerRecordsOf(pass[p].emails[pass[p].i], pass[p].user) = {}
              /\ pass'[p].pc \in {"create", "mark"} =>
                    /\ pass[p].pc \in {"extract", "create"}
                    /\ pass'[p].i = pass[p].i
              /\ tasks' # tasks => pass[p].pc = "create"
              /\ ledger' # ledger =>
                    /\ pass[p].pc = "mark"
                    /\ \A d \in ledger' \ ledger :
                          d.email_id = pass[p].emails[pass[p].i] /\ d.user_id = pass[p].user]_vars

\* a pass has gone over emails an earlier pass had finished: the email is in
\* the ledger with its tasks, and the later pass created nothing for it
C32_Witness ==
    \E p \in Passes : \E i \in 1..Len(pass[p].emails) :
        LET e == pass[p].emails[i]
            u == pass[p].user
        IN  /\ pass[p].pc = "done" /\ pass[p].rerun
            /\ ~FromSelf(e, u)
            /\ LedgerRecordsOf(e, u) # {}
            /\ EmailTasksOf(e, u) # {}
            /\ TasksOfItem(tasks, p, i) = {}
            /\ \A d \in LedgerRecordsOf(e, u) : d._id[2] # p

\* C33: once the handler of an accepted trigger has responded and the run it
\* started has returned (its status writes succeeding, no other trigger at
\* work on the meeting), the status of the meeting is completed or failed.
C33_EagerWriteNeverLast ==
    \A h \in Triggers :
        (/\ trig[h].pc = "responded"
         /\ run[h].pc = "done"
         /\ ~run[h].wfail
         /\ NoOtherTrigger(h))
        => StoredStatus(meetings, run[h].meeting) \in {"completed", "failed"}

\* C34: a run started on a failed meeting, alone on that meeting, in which
\* the service starts, the document is found with its text and the
\* summarization gives a result, returns True with the meeting completed.
C34_FailedIsRecoverable ==
    \A h \in Triggers :
        (/\ run[h].pc = "done"
         /\ run[h].seen = "failed"
         /\ run[h].found = "text"
         /\ run[h].err # "Failed to generate summary"
         /\ \A q \in Triggers \ {h} :
               trig[q].meeting = run[h].meeting => q < h /\ run[q].pc = "done")
        => /\ run[h].result = "True"
           /\ run[h].wrote[Len(run[h].wrote)].status = "completed"

\* some run has written completed for the meeting
ReachedCompleted(m) ==
    \E h \in Triggers :
        /\ run[h].meeting = m._id
        /\ \E i \in 1..Len(run[h].wrote) : run[h].wrote[i].status = "completed"

\* C35: a completed meeting has a processed_at, and a meeting has a
\* processed_at only if a run has taken it to completed.
C35_ProcessedAtIffCompleted ==
    \A m \in meetings :
        /\ m.processing_status = "completed" => m.processed_at # None
        /\ m.processed_at # None => ReachedCompleted(m)
        /\ ~ReachedCompleted(m) => m.processed_at = None

\* a meeting that had failed, without a processed_at, has been taken to
\* completed by a later run and has its processed_at
C35_Witness ==
    \E m \in meetings : \E h \in Triggers :
        /\ m.processing_status = "completed" /\ m.processed_at # None
        /\ run[h].meeting = m._id /\ run[h].seen = "failed"
        /\ run[h].pc = "done" /\ run[h].result = "True"

\* C36: a meeting carries an error_message only while its status is failed.
C36_ErrorMessageOnlyWhenFailed ==
    \A m \in meetings :
        m.error_message # None => m.processing_status = "failed"

\* pass p is at work on email e of user u
Handling(p, e, u) ==
    /\ pass[p].pc \in {"check", "extract", "create", "mark"}
    /\ pass[p].user = u
    /\ pass[p].emails[pass[p].i] = e

\* C37: while no pass is at work on email e of user u, a ledger record of
\* (e, u) holds the number of Tasks of e owned by u, and the Tasks of e
\* owned by u have a ledger record.
C37_LedgerCountsTasks ==
    \A e \in Emails, u \in Users :
        (\A p \in Passes : ~Handling(p, e, u)) =>
            /\ \A d \in LedgerRecordsOf(e, u) :
                  d.tasks_created = Cardinality(EmailTasksOf(e, u))
            /\ EmailTasksOf(e, u) # {} => LedgerRecordsOf(e, u) # {}

TranscriptsOf(m) == {t \in transcripts : t.meeting_id = m._id}

SummariesOf(m) == {x \in summaries : x.meeting_id = m._id}

\* C38: a meeting has at most one transcript and at most one summary, a
\* summary only with a transcript, and both when it is completed.
C38_OneTranscriptOneSummary ==
    \A m \in meetings :
        /\ Cardinality(TranscriptsOf(m)) <= 1
        /\ Cardinality(SummariesOf(m)) <= 1
        /\ SummariesOf(m) # {} => TranscriptsOf(m) # {}
        /\ m.processing_status = "completed" => TranscriptsOf(m) # {} /\ SummariesOf(m) # {}

\* a meeting was completed by one run, and a second run on it was stopped
\* by the unique index: it still has one transcript and one summary
C38_Witness ==
    \E m \in meetings : \E h, q \in Triggers :
        /\ run[h].meeting = m._id /\ run[h].result = "True"
        /\ run[q].meeting = m._id /\ run[q].pc = "done"
        /\ run[q].err = "E11000 duplicate key error"
        /\ Cardinality(TranscriptsOf(m)) = 1
        /\ Cardinality(SummariesOf(m)) = 1

\* C39: a worker whose tick raised goes on to the sleep phase (directly, or
\* after the users that remain) without leaving the loop, and then, unless
\* the flag is cleared, begins another tick.
C39_TickErrorKeepsLoop ==
    /\ [][\A w \in Calls :
             (worker[w].pc = "caught" /\ worker'[w] # worker[w]) =>
                 worker'[w].pc \in {"tick", "sleep"}]_vars
    /\ \A w \in Calls :
          (worker[w].pc = "caught") ~> (worker[w].pc \in {"sleep", "sleeping"} \/ ~is_running)
    /\ \A w \in Calls :
          (worker[w].pc = "caught") ~>
              ((worker[w].pc = "tick" /\ worker[w].u = 0) \/ ~is_running)

\* the handling of an item of the last user has raised while the flag is set
C39_Witness ==
    \E w \in Calls :
        /\ worker[w].pc = "caught"
        /\ worker[w].u = Len(TickUsers)
        /\ worker[w].i >= 1
        /\ is_running

\* C40: every candidate the normalizer returns for an email, and every Task
\* created from an email candidate or from a meeting action item, has a
\* title of at most 100 characters.
C40_TitleWithinLimit ==
    /\ (norm.mode = "email" /\ norm.pc \in {"create", "done"}) =>
           \A i \in 1..Len(norm.items) : len(norm.items[i].title) <= TitleLimit
    /\ \A t \in tasks : t._id[1] = "norm" => len(t.title) <= TitleLimit

====
